---- MODULE Spec2Model ----
(***************************************************************************)
(* Trust / emotion / fate core of fizban-world.                            *)
(*                                                                         *)
(* Python floats are modelled as fixed-point integers: the float x is the  *)
(* integer x * Scale, and every product is rounded to the nearest unit.    *)
(***************************************************************************)
EXTENDS Integers, Sequences, FiniteSets, TLC

\* ------------------------------------------------------------------------
\* Fixed-point arithmetic
\* ------------------------------------------------------------------------

\* one unit of a Python float
Scale == 1000

\* bound on the number of run_round calls in one behaviour
MaxRounds == 3

\* n / d rounded to the nearest integer (d > 0)
Round(n, d) == (2 * n + d) \div (2 * d)

\* the float literal n/d
Dec(n, d) == Round(n * Scale, d)

\* the float product x * y
Mul(x, y) == Round(x * y, Scale)

Abs(x) == IF x < 0 THEN -x ELSE x

Max(x, y) == IF x >= y THEN x ELSE y

Min(x, y) == IF x <= y THEN x ELSE y

\* ------------------------------------------------------------------------
\* fizban_agent.py : AgentState
\* ------------------------------------------------------------------------

AgentIds == {"a", "b"}

\* a third party that never plays a round; only a key of the per-agent maps
Bystander == "c"

Other(x) == IF x = "a" THEN "b" ELSE "a"

TrustStrategy ==
    {"copycat", "copykitten", "cooperator", "cheater", "grudger",
     "detective", "simpleton", "random", "texan", "two_cat"}

RelationshipTier ==
    {"stranger", "acquaintance", "ally", "permanent_follower",
     "love_interest", "rival"}

\* RelationshipState(tier, affinity, romantic)
RelationshipState(tier, affinity, romantic) ==
    [tier |-> tier, affinity |-> affinity, romantic |-> romantic]

\* a dict with no key
EmptyDict == [k \in {} |-> 0]

\* d[k] = v, creating the key when it is absent
DictSet(d, k, v) == [x \in (DOMAIN d) \cup {k} |-> IF x = k THEN v ELSE d[x]]

\* AgentState as from_dict builds it.  id_kind is the Python type of the "id"
\* value of the JSON document: from_dict stores data["id"] unconverted, so a
\* JSON array gives an unhashable list.
AgentState(id, id_kind, tags, moral_axis, strategy, trust_matrix, gossip_bias, valence, strain, bias_trust, bias_betrayal, resentment, cooldown, relationships) ==
    [id |-> id,
     id_kind |-> id_kind,
     tags |-> tags,
     alignment |-> [law_axis |-> "neutral", moral_axis |-> moral_axis],
     trust_strategy |-> strategy,
     trust_matrix |-> trust_matrix,
     gossip_bias |-> gossip_bias,
     emotion |-> [valence |-> valence, strain |-> strain, weird_mode |-> FALSE],
     titanias_grace |-> [fate_bias_toward_trust |-> bias_trust,
                         fate_bias_toward_betrayal |-> bias_betrayal],
     bounce_back |-> [resentment |-> resentment, cooldown |-> cooldown],
     inventory |-> [gold |-> 0],
     relationships |-> relationships]

\* a dict lookup with an unhashable key raises TypeError
Hashable(ag) == ag.id_kind = "str"

\* AgentState.get_trust
get_trust(ag, other_id) ==
    IF other_id \in DOMAIN ag.trust_matrix THEN ag.trust_matrix[other_id]
    ELSE IF other_id \in DOMAIN ag.gossip_bias THEN ag.gossip_bias[other_id]
    ELSE 0

\* a trust clamp that forgets the lower end
ClampTrust_NoFloor(t) == IF t > Scale THEN Scale ELSE t

\* the clamp of new_trust to [-1, 1]
ClampTrust(t) == IF t > Scale THEN Scale ELSE IF t < -Scale THEN -Scale ELSE t

\* learning rates in which good interactions move trust faster than betrayals
TrustLearningRate_Gentle(ag, outcome) ==
    LET pos_lr == Dec(35, 100)
        neg_lr == Dec(15, 100)
        neu_lr == Dec(5, 100)
        bias_trust == ag.titanias_grace.fate_bias_toward_trust
        bias_betrayal == ag.titanias_grace.fate_bias_toward_betrayal
    IN  IF outcome > 0 THEN Mul(pos_lr, Scale + bias_trust)
        ELSE IF outcome < 0 THEN
            LET lr == Mul(neg_lr, Scale + bias_betrayal)
            IN  IF ag.alignment.moral_axis = "good" THEN Mul(lr, Dec(12, 10))
                ELSE IF ag.alignment.moral_axis = "evil" THEN Mul(lr, Dec(8, 10))
                ELSE lr
        ELSE neu_lr

\* the learning rate picked for a signed outcome
TrustLearningRate(ag, outcome) ==
    LET pos_lr == Dec(15, 100)
        neg_lr == Dec(35, 100)
        neu_lr == Dec(5, 100)
        bias_trust == ag.titanias_grace.fate_bias_toward_trust
        bias_betrayal == ag.titanias_grace.fate_bias_toward_betrayal
    IN  IF outcome > 0 THEN Mul(pos_lr, Scale + bias_trust)
        ELSE IF outcome < 0 THEN
            LET lr == Mul(neg_lr, Scale + bias_betrayal)
            IN  IF ag.alignment.moral_axis = "good" THEN Mul(lr, Dec(12, 10))
                ELSE IF ag.alignment.moral_axis = "evil" THEN Mul(lr, Dec(8, 10))
                ELSE lr
        ELSE neu_lr

\* a trust update that rebuilds trust_matrix with the one entry it writes
update_trust_after_interaction_Forgetful(ag, other_id, outcome) ==
    LET current == IF other_id \in DOMAIN ag.trust_matrix
                   THEN ag.trust_matrix[other_id] ELSE 0
        delta == Mul(TrustLearningRate(ag, outcome), outcome)
        new_trust == ClampTrust(current + delta)
    IN  [ag EXCEPT !.trust_matrix = [k \in {other_id} |-> new_trust]]

\* AgentState.update_trust_after_interaction
update_trust_after_interaction(ag, other_id, outcome) ==
    LET current == IF other_id \in DOMAIN ag.trust_matrix
                   THEN ag.trust_matrix[other_id] ELSE 0
        delta == Mul(TrustLearningRate(ag, outcome), outcome)
        new_trust == ClampTrust(current + delta)
    IN  [ag EXCEPT !.trust_matrix = DictSet(ag.trust_matrix, other_id, new_trust)]

\* the clamp of valence to [-1, 1]
ClampValence(v) == IF v > Scale THEN Scale ELSE IF v < -Scale THEN -Scale ELSE v

\* the clamp of strain / resentment to [0, 1]
ClampUnit(s) == IF s > Scale THEN Scale ELSE IF s < 0 THEN 0 ELSE s

\* a weird-mode flag recomputed from the thresholds alone, without memory
WeirdToggle_NoHysteresis(prev, v, s) ==
    Abs(v) > Dec(95, 100) \/ s > Dec(7, 10)

\* a weird-mode flag that, once on, is never turned off
WeirdToggle_Latch(prev, v, s) ==
    prev \/ Abs(v) > Dec(95, 100) \/ s > Dec(7, 10)

\* the weird-mode toggle at the end of apply_emotional_impact
WeirdToggle(prev, v, s) ==
    IF Abs(v) > Dec(95, 100) \/ s > Dec(7, 10) THEN TRUE
    ELSE IF s < Dec(3, 10) /\ Abs(v) < Dec(7, 10) THEN FALSE
    ELSE prev

\* an emotional impact whose betrayal spike ignores the distrust of the betrayer
apply_emotional_impact_FlatSpike(ag, payoff_emotion, betrayal, other_id) ==
    LET v0 == ag.emotion.valence + Mul(Dec(4, 10), payoff_emotion)
        v == ClampValence(IF betrayal THEN v0 - Dec(3, 10) ELSE v0)
        s == ClampUnit(IF betrayal
                       THEN ag.emotion.strain + Dec(2, 10)
                       ELSE Mul(ag.emotion.strain, Dec(9, 10)))
        r == ClampUnit(IF betrayal
                       THEN Mul(ag.bounce_back.resentment, Dec(8, 10)) + Dec(25, 100)
                       ELSE Mul(ag.bounce_back.resentment, Dec(9, 10)))
    IN  [ag EXCEPT !.emotion.valence = v,
                   !.emotion.strain = s,
                   !.bounce_back.resentment = r,
                   !.emotion.weird_mode = WeirdToggle(ag.emotion.weird_mode, v, s)]

\* AgentState.apply_emotional_impact
apply_emotional_impact(ag, payoff_emotion, betrayal, other_id) ==
    LET v0 == ag.emotion.valence + Mul(Dec(4, 10), payoff_emotion)
        v == ClampValence(IF betrayal THEN v0 - Dec(3, 10) ELSE v0)
        distrust == Max(0, -get_trust(ag, other_id))
        s == ClampUnit(IF betrayal
                       THEN ag.emotion.strain + Dec(2, 10) + Mul(Dec(1, 10), distrust)
                       ELSE Mul(ag.emotion.strain, Dec(9, 10)))
        r == ClampUnit(IF betrayal
                       THEN Mul(ag.bounce_back.resentment, Dec(8, 10)) + Dec(25, 100)
                       ELSE Mul(ag.bounce_back.resentment, Dec(9, 10)))
    IN  [ag EXCEPT !.emotion.valence = v,
                   !.emotion.strain = s,
                   !.bounce_back.resentment = r,
                   !.emotion.weird_mode = WeirdToggle(ag.emotion.weird_mode, v, s)]

\* ------------------------------------------------------------------------
\* fizban_sim_round.py
\* ------------------------------------------------------------------------

Actions == {"C", "D"}

\* values of forced_action_a / forced_action_b; anything but C or D is "not forced"
Forced == {"None", "C", "D"}

\* outcomes of one random.random() call, as fixed-point numbers in [0, 1)
RandomDraws == {Dec(1, 10), Dec(55, 100), Dec(9, 10)}

\* the draws an agent's baseline can consume: only the simpleton and random
\* branches of base_action_from_strategy call random.random()
DrawsFor(ag) ==
    IF ag.trust_strategy \in {"simpleton", "random"} THEN RandomDraws ELSE {0}

\* a payoff table with the sucker and the temptation payoffs swapped
payoff_Swapped(a, b) ==
    IF a = "C" /\ b = "C" THEN <<2 * Scale, 2 * Scale>>
    ELSE IF a = "C" /\ b = "D" THEN <<3 * Scale, -Scale>>
    ELSE IF a = "D" /\ b = "C" THEN <<-Scale, 3 * Scale>>
    ELSE <<0, 0>>

\* payoff(a, b) -> (payoff_a, payoff_b)
payoff(a, b) ==
    IF a = "C" /\ b = "C" THEN <<2 * Scale, 2 * Scale>>
    ELSE IF a = "C" /\ b = "D" THEN <<-Scale, 3 * Scale>>
    ELSE IF a = "D" /\ b = "C" THEN <<3 * Scale, -Scale>>
    ELSE <<0, 0>>

\* shared_interest_score: Jaccard overlap of the two tag sets
shared_interest_score(a, b) ==
    IF a.tags = {} \/ b.tags = {} THEN 0
    ELSE Round(Cardinality(a.tags \cap b.tags) * Scale,
               Cardinality(a.tags \cup b.tags))

\* a baseline in which the cheater branch is missing and falls to the default
base_action_NoCheaterBranch(ag, other_id, draw) ==
    LET strat == ag.trust_strategy
        t == get_trust(ag, other_id)
    IN  IF strat = "cooperator" THEN "C"
        ELSE IF strat = "copycat" THEN (IF t >= -Dec(2, 10) THEN "C" ELSE "D")
        ELSE IF strat = "copykitten" THEN (IF t > -Dec(4, 10) THEN "C" ELSE "D")
        ELSE IF strat = "grudger" THEN (IF t >= 0 THEN "C" ELSE "D")
        ELSE IF strat = "simpleton" THEN (IF draw < Dec(6, 10) THEN "C" ELSE "D")
        ELSE IF strat = "random" THEN (IF draw < Dec(5, 10) THEN "C" ELSE "D")
        ELSE "C"

\* a baseline whose copycat defects already at trust -0.2
base_action_StrictCopycat(ag, other_id, draw) ==
    LET strat == ag.trust_strategy
        t == get_trust(ag, other_id)
    IN  IF strat = "cooperator" THEN "C"
        ELSE IF strat = "cheater" THEN "D"
        ELSE IF strat = "copycat" THEN (IF t > -Dec(2, 10) THEN "C" ELSE "D")
        ELSE IF strat = "copykitten" THEN (IF t > -Dec(4, 10) THEN "C" ELSE "D")
        ELSE IF strat = "grudger" THEN (IF t >= 0 THEN "C" ELSE "D")
        ELSE IF strat = "simpleton" THEN (IF draw < Dec(6, 10) THEN "C" ELSE "D")
        ELSE IF strat = "random" THEN (IF draw < Dec(5, 10) THEN "C" ELSE "D")
        ELSE "C"

\* base_action_from_strategy; draw is the value random.random() returns
base_action_from_strategy(ag, other_id, draw) ==
    LET strat == ag.trust_strategy
        t == get_trust(ag, other_id)
    IN  IF strat = "cooperator" THEN "C"
        ELSE IF strat = "cheater" THEN "D"
        ELSE IF strat = "copycat" THEN (IF t >= -Dec(2, 10) THEN "C" ELSE "D")
        ELSE IF strat = "copykitten" THEN (IF t > -Dec(4, 10) THEN "C" ELSE "D")
        ELSE IF strat = "grudger" THEN (IF t >= 0 THEN "C" ELSE "D")
        ELSE IF strat = "simpleton" THEN (IF draw < Dec(6, 10) THEN "C" ELSE "D")
        ELSE IF strat = "random" THEN (IF draw < Dec(5, 10) THEN "C" ELSE "D")
        ELSE "C"

\* align_bias
align_bias(a, b, shared_interest) ==
    LET ma == a.alignment.moral_axis
        mb == b.alignment.moral_axis
        moral == IF ma = "good" /\ mb = "good" THEN Dec(1, 10)
                 ELSE IF {ma, mb} = {"good", "evil"} THEN -Dec(1, 10)
                 ELSE 0
        bias == moral + Mul(Dec(2, 10), shared_interest)
    IN  IF bias > Dec(3, 10) THEN Dec(3, 10)
        ELSE IF bias < -Dec(3, 10) THEN -Dec(3, 10)
        ELSE bias

\* relationship_coop_bias
relationship_coop_bias(ag, other_id) ==
    IF other_id \notin DOMAIN ag.relationships THEN 0
    ELSE
        LET rel == ag.relationships[other_id]
            b1 == IF rel.tier \in {"ally", "permanent_follower", "love_interest"}
                     /\ rel.affinity > 0
                  THEN Mul(Dec(2, 10), rel.affinity) ELSE 0
            b2 == IF rel.tier = "rival" /\ rel.affinity < 0
                  THEN b1 - Mul(Dec(2, 10), -rel.affinity) ELSE b1
            b3 == IF rel.romantic /\ rel.affinity > Dec(5, 10)
                  THEN b2 + Dec(1, 10) ELSE b2
        IN  IF b3 > Dec(5, 10) THEN Dec(5, 10)
            ELSE IF b3 < -Dec(5, 10) THEN -Dec(5, 10)
            ELSE b3

\* p_coop of decide_action, after its clamp to [0, 1]
p_cooperate(ag, other, s_interest) ==
    LET t == get_trust(ag, other.id)
        trust_p == Mul(Dec(5, 10), t + Scale)
        p == trust_p + align_bias(ag, other, s_interest)
                     + relationship_coop_bias(ag, other.id)
    IN  IF p < 0 THEN 0 ELSE IF p > Scale THEN Scale ELSE p

\* a three-way decision whose outer zones exclude their end points
ZoneDecision_Strict(p_coop, base) ==
    IF p_coop > Dec(7, 10) THEN "C"
    ELSE IF p_coop < Dec(3, 10) THEN "D"
    ELSE base

\* the three-way decision at the end of decide_action
ZoneDecision(p_coop, base) ==
    IF p_coop >= Dec(7, 10) THEN "C"
    ELSE IF p_coop <= Dec(3, 10) THEN "D"
    ELSE base

\* decide_action
decide_action(ag, other, s_interest, draw) ==
    ZoneDecision(p_cooperate(ag, other, s_interest),
                 base_action_from_strategy(ag, other.id, draw))

\* an outcome in which exploiting a cooperator counts against the exploited
outcome_for_Guilt(me_action, other_action) ==
    IF me_action = "C" /\ other_action = "C" THEN Scale
    ELSE IF me_action = "C" /\ other_action = "D" THEN -Scale
    ELSE IF me_action = "D" /\ other_action = "C" THEN -Scale
    ELSE 0

\* run_round.outcome_for
outcome_for(me_action, other_action) ==
    IF me_action = "C" /\ other_action = "C" THEN Scale
    ELSE IF me_action = "D" /\ other_action = "D" THEN 0
    ELSE IF me_action = "C" /\ other_action = "D" THEN -Scale
    ELSE IF me_action = "D" /\ other_action = "C" THEN Scale
    ELSE 0

\* a cooldown step that also lets a betrayal feed the agent's fate bias
CooldownStep_FateDrift(ag, betrayal) ==
    IF betrayal \/ ag.emotion.strain > Dec(5, 10)
    THEN [ag EXCEPT !.bounce_back.cooldown = Max(ag.bounce_back.cooldown, 2),
                    !.titanias_grace.fate_bias_toward_betrayal = @ + Dec(1, 10)]
    ELSE IF ag.bounce_back.cooldown > 0
         THEN [ag EXCEPT !.bounce_back.cooldown = ag.bounce_back.cooldown - 1]
         ELSE ag

\* a cooldown step that resets the cooldown to 2 instead of keeping a longer one
CooldownStep_ResetToTwo(ag, betrayal) ==
    IF betrayal \/ ag.emotion.strain > Dec(5, 10)
    THEN [ag EXCEPT !.bounce_back.cooldown = 2]
    ELSE IF ag.bounce_back.cooldown > 0
         THEN [ag EXCEPT !.bounce_back.cooldown = ag.bounce_back.cooldown - 1]
         ELSE ag

\* a cooldown step that already treats strain above 0.3 as high
CooldownStep_LowThreshold(ag, betrayal) ==
    IF betrayal \/ ag.emotion.strain > Dec(3, 10)
    THEN [ag EXCEPT !.bounce_back.cooldown = Max(ag.bounce_back.cooldown, 2)]
    ELSE IF ag.bounce_back.cooldown > 0
         THEN [ag EXCEPT !.bounce_back.cooldown = ag.bounce_back.cooldown - 1]
         ELSE ag

\* the cooldown heuristic of run_round, for one agent
CooldownStep(ag, betrayal) ==
    IF betrayal \/ ag.emotion.strain > Dec(5, 10)
    THEN [ag EXCEPT !.bounce_back.cooldown = Max(ag.bounce_back.cooldown, 2)]
    ELSE IF ag.bounce_back.cooldown > 0
         THEN [ag EXCEPT !.bounce_back.cooldown = ag.bounce_back.cooldown - 1]
         ELSE ag

\* the state updates of a run_round call that returns, in statement order
RoundUpdates ==
    <<"trust_a", "trust_b", "emotion_a", "emotion_b", "cooldown_a", "cooldown_b">>

\* the summary dict run_round returns
RoundSummary(a, b, action_a, action_b, s_interest) ==
    [a_id |-> a.id,
     b_id |-> b.id,
     action_a |-> action_a,
     action_b |-> action_b,
     payoff_a_raw |-> payoff(action_a, action_b)[1],
     payoff_b_raw |-> payoff(action_a, action_b)[2],
     payoff_a_emotion |-> Mul(Dec(25, 100), payoff(action_a, action_b)[1]),
     payoff_b_emotion |-> Mul(Dec(25, 100), payoff(action_a, action_b)[2]),
     betrayal_a |-> (action_a = "C" /\ action_b = "D"),
     betrayal_b |-> (action_b = "C" /\ action_a = "D"),
     shared_interest |-> s_interest,
     trust_a_after |-> get_trust(a, b.id),
     trust_b_after |-> get_trust(b, a.id),
     emotion_a_valence |-> a.emotion.valence,
     emotion_b_valence |-> b.emotion.valence,
     strain_a |-> a.emotion.strain,
     strain_b |-> b.emotion.strain,
     cooldown_a |-> a.bounce_back.cooldown,
     cooldown_b |-> b.bounce_back.cooldown,
     weird_mode_a |-> a.emotion.weird_mode,
     weird_mode_b |-> b.emotion.weird_mode]

\* ------------------------------------------------------------------------
\* State of a two-agent simulation
\* ------------------------------------------------------------------------

VARIABLES
    agent,      \* agent[x]: the AgentState of agent x
    summary,    \* <<>> until a round returns, then <<its summary>>
    call,       \* the arguments of the latest run_round call, how it ended and
                \* (updates) the state updates it performed, in order;
                \* trust_a_before, trust_b_before: get_trust as the call began
    rounds      \* number of run_round calls made

simVars == <<agent, summary, call, rounds>>

\* the summary of the latest round that returned
Last == summary[1]

\* no run_round call made yet
NoCall ==
    [forced_a |-> "None", forced_b |-> "None", raised |-> FALSE,
     base_a |-> "", base_b |-> "", p_coop_a |-> 0, p_coop_b |-> 0,
     trust_a_before |-> 0, trust_b_before |-> 0,
     updates |-> <<>>]

\* The strategies of the two agents
StrategyPairs == TrustStrategy \X {"copycat", "cheater"}

\* Starting points of a simulation: the two agent documents loaded by
\* load_agent, every bounded field within its range.
Setups ==
    { \* 1: two default agents
      [a |-> AgentState("a", "str", {}, "neutral", "copycat", EmptyDict, EmptyDict,
                        0, 0, 0, 0, 0, 0, EmptyDict),
       b |-> AgentState("b", "str", {}, "neutral", "copycat", EmptyDict, EmptyDict,
                        0, 0, 0, 0, 0, 0, EmptyDict)],
      \* 2: two good allies who share a tag and already trust each other
      [a |-> AgentState("a", "str", {"fey"}, "good", "copycat",
                        [k \in {"b", Bystander} |-> IF k = "b" THEN Dec(4, 10) ELSE Dec(2, 10)],
                        EmptyDict, Dec(8, 10), 0, 0, 0, 0, 0,
                        [k \in {"b"} |-> RelationshipState("ally", Dec(8, 10), FALSE)]),
       b |-> AgentState("b", "str", {"fey"}, "good", "copycat",
                        [k \in {"a"} |-> Dec(9, 10)], EmptyDict,
                        0, 0, 0, 0, 0, 0, EmptyDict)],
      \* 3: good against evil, distrust, strain and a rivalry
      [a |-> AgentState("a", "str", {"knight"}, "good", "copycat",
                        [k \in {"b"} |-> -Dec(5, 10)], [k \in {"b"} |-> Dec(3, 10)],
                        0, Dec(6, 10), 0, Dec(1, 10), Dec(5, 10), 3, EmptyDict),
       b |-> AgentState("b", "str", {"fey"}, "evil", "copycat",
                        EmptyDict, [k \in {"a"} |-> -Dec(6, 10)],
                        0, 0, 0, 0, 0, 0,
                        [k \in {"a"} |-> RelationshipState("rival", -Dec(9, 10), FALSE)])],
      \* 4: a gossip prior without a trust entry, a romance, a strained partner
      [a |-> AgentState("a", "str", {"fey", "knight"}, "evil", "copycat",
                        EmptyDict, [k \in {"b"} |-> Dec(5, 10)],
                        0, 0, Dec(1, 10), 0, 0, 0,
                        [k \in {"b"} |-> RelationshipState("love_interest", Dec(6, 10), TRUE)]),
       b |-> AgentState("b", "str", {"fey"}, "neutral", "copycat",
                        [k \in {"a"} |-> -Dec(3, 10)], EmptyDict,
                        -Dec(8, 10), Dec(65, 100), 0, 0, Dec(9, 10), 1, EmptyDict)],
      \* 5: every bounded field of a at an end of its range
      [a |-> AgentState("a", "str", {}, "neutral", "copycat",
                        [k \in {"b"} |-> -Scale], EmptyDict,
                        -Scale, Scale, 0, Dec(5, 10), Scale, 0, EmptyDict),
       b |-> AgentState("b", "str", {}, "good", "copycat",
                        [k \in {"a"} |-> Scale], EmptyDict,
                        Scale, 0, Dec(5, 10), 0, 0, 0, EmptyDict)],
      \* 6: agent a loaded from a document whose "id" is a JSON array
      [a |-> AgentState("a", "list", {}, "neutral", "copycat", EmptyDict, EmptyDict,
                        0, 0, 0, 0, 0, 0, EmptyDict),
       b |-> AgentState("b", "str", {}, "neutral", "copycat", EmptyDict, EmptyDict,
                        0, 0, 0, 0, 0, 0, EmptyDict)],
      \* 7: agent b loaded from a document whose "id" is a JSON array
      [a |-> AgentState("a", "str", {}, "neutral", "copycat", EmptyDict, EmptyDict,
                        0, 0, 0, 0, 0, 0, EmptyDict),
       b |-> AgentState("b", "list", {}, "neutral", "copycat", EmptyDict, EmptyDict,
                        0, 0, 0, 0, 0, 0, EmptyDict)],
      \* 8: trust that puts p_coop exactly on the two thresholds of decide_action
      [a |-> AgentState("a", "str", {}, "neutral", "copycat",
                        [k \in {"b"} |-> -Dec(4, 10)], EmptyDict,
                        0, 0, 0, 0, 0, 0, EmptyDict),
       b |-> AgentState("b", "str", {}, "neutral", "copycat",
                        [k \in {"a"} |-> Dec(4, 10)], EmptyDict,
                        0, 0, 0, 0, 0, 0, EmptyDict)],
      \* 9: fate biases that favour trust: an evil agent nudged toward trust and
      \* a neutral one nudged away from betrayal
      [a |-> AgentState("a", "str", {}, "evil", "copycat", EmptyDict, EmptyDict,
                        0, 0, Dec(9, 10), 0, 0, 0, EmptyDict),
       b |-> AgentState("b", "str", {}, "neutral", "copycat", EmptyDict, EmptyDict,
                        0, 0, 0, -Dec(6, 10), 0, 0, EmptyDict)] }

InitSim ==
    /\ \E setup \in Setups, sp \in StrategyPairs, w \in BOOLEAN :
          agent = [x \in AgentIds |->
                     IF x = "a"
                     THEN [setup.a EXCEPT !.trust_strategy = sp[1],
                                          !.emotion.weird_mode = w]
                     ELSE [setup.b EXCEPT !.trust_strategy = sp[2]]]
    /\ summary = <<>>
    /\ call = NoCall
    /\ rounds = 0

\* One call run_round(agent[x], agent[y], forced_a, forced_b), statement by
\* statement.  The agents are mutated in place, so when a statement raises the
\* agents keep whatever was assigned before it:
\*   - decide_action(p, q) and p.update_trust_after_interaction(q.id, ..) look
\*     q.id up in p's dicts and raise TypeError when q.id is unhashable;
\*   - agent x's trust update runs before agent y's.
RunRound(x, y) ==
    /\ rounds < MaxRounds
    /\ \E forced_a \in Forced, forced_b \in Forced,
          draw_a \in DrawsFor(agent[x]), draw_b \in DrawsFor(agent[y]) :
       \E s_interest \in {shared_interest_score(agent[x], agent[y])} :
          LET decided_a == forced_a \notin Actions /\ Hashable(agent[y])
              decided_b == forced_b \notin Actions /\ Hashable(agent[x])
              raise_decide_a == forced_a \notin Actions /\ ~Hashable(agent[y])
              raise_decide_b == forced_b \notin Actions /\ ~Hashable(agent[x])
              args == [forced_a |-> forced_a,
                       forced_b |-> forced_b,
                       raised |-> TRUE,
                       base_a |-> IF decided_a
                                  THEN base_action_from_strategy(agent[x], y, draw_a)
                                  ELSE "",
                       base_b |-> IF decided_b
                                  THEN base_action_from_strategy(agent[y], x, draw_b)
                                  ELSE "",
                       p_coop_a |-> IF decided_a
                                    THEN p_cooperate(agent[x], agent[y], s_interest)
                                    ELSE 0,
                       p_coop_b |-> IF decided_b
                                    THEN p_cooperate(agent[y], agent[x], s_interest)
                                    ELSE 0,
                       trust_a_before |-> IF Hashable(agent[y])
                                          THEN get_trust(agent[x], y) ELSE 0,
                       trust_b_before |-> IF Hashable(agent[x])
                                          THEN get_trust(agent[y], x) ELSE 0,
                       updates |-> <<>>]
          IN  /\ rounds' = rounds + 1
              /\ IF raise_decide_a \/ raise_decide_b \/ ~Hashable(agent[y])
                 THEN \* raised while deciding, or in agent x's trust update
                      /\ agent' = agent
                      /\ summary' = summary
                      /\ call' = args
                 ELSE
                   \E action_a \in {IF forced_a \in Actions THEN forced_a
                                    ELSE decide_action(agent[x], agent[y], s_interest, draw_a)},
                      action_b \in {IF forced_b \in Actions THEN forced_b
                                    ELSE decide_action(agent[y], agent[x], s_interest, draw_b)} :
                   \E pay \in {payoff(action_a, action_b)} :
                   \E a1 \in {update_trust_after_interaction(
                                 agent[x], y, outcome_for(action_a, action_b))} :
                      IF ~Hashable(agent[x])
                      THEN \* raised in agent y's trust update
                           /\ agent' = [agent EXCEPT ![x] = a1]
                           /\ summary' = summary
                           /\ call' = [args EXCEPT !.updates = <<"trust_a">>]
                      ELSE
                        \E b1 \in {update_trust_after_interaction(
                                      agent[y], x, outcome_for(action_b, action_a))} :
                        \E a2 \in {apply_emotional_impact(
                                      a1, Mul(Dec(25, 100), pay[1]),
                                      action_a = "C" /\ action_b = "D", y)} :
                        \E b2 \in {apply_emotional_impact(
                                      b1, Mul(Dec(25, 100), pay[2]),
                                      action_b = "C" /\ action_a = "D", x)} :
                        \E a3 \in {CooldownStep(a2, action_a = "C" /\ action_b = "D")},
                           b3 \in {CooldownStep(b2, action_b = "C" /\ action_a = "D")} :
                           /\ agent' = [agent EXCEPT ![x] = a3, ![y] = b3]
                           /\ summary' = <<RoundSummary(a3, b3, action_a, action_b,
                                                         s_interest)>>
                           /\ call' = [args EXCEPT !.raised = FALSE,
                                                    !.updates = RoundUpdates]

\* ------------------------------------------------------------------------
\* fizban_trust_math.py
\* ------------------------------------------------------------------------

\* bound on the number of rounds of the trust/fate loop in one behaviour
MaxSteps == 3

\* a clamp that forgets the upper end
clamp_NoUpper(v, lo, hi) == IF v < lo THEN lo ELSE v

\* clamp(v, lo, hi)
clamp(v, lo, hi) == IF v < lo THEN lo ELSE IF v > hi THEN hi ELSE v

\* outcome codes a caller may pass: the four codes, one in lower case, one unknown
OutcomeCodes == {"CC", "CD", "DC", "DD", "cd", "XX"}

\* str.upper() on the codes above
Upper(outcome) == IF outcome = "cd" THEN "CD" ELSE outcome

\* the membership test that guards _outcome_effects
KnownOutcome(outcome) == outcome \in {"CC", "CD", "DC", "DD"}

\* effects in which a betrayal moves affinity by one base step only
outcome_effects_SoftBetrayal(outcome) ==
    LET base_step == Dec(15, 100)
    IN  IF outcome = "CC" THEN <<base_step, 0, 1>>
        ELSE IF outcome = "CD" THEN <<-base_step, 1, 0>>
        ELSE IF outcome = "DC" THEN <<-Dec(5, 100), 0, 0>>
        ELSE <<-Dec(1, 10), 0, 0>>

\* effects in which mutual defection also counts as a betrayal
outcome_effects_DDBetrayal(outcome) ==
    LET base_step == Dec(15, 100)
    IN  IF outcome = "CC" THEN <<base_step, 0, 1>>
        ELSE IF outcome = "CD" THEN <<-(2 * base_step), 1, 0>>
        ELSE IF outcome = "DC" THEN <<-Dec(5, 100), 0, 0>>
        ELSE <<-Dec(1, 10), 1, 0>>

\* _outcome_effects: <<delta_affinity, delta_betrayal, delta_coop_streak>> of a
\* known outcome (the counters are whole numbers stored as floats)
outcome_effects(outcome) ==
    LET base_step == Dec(15, 100)
    IN  IF outcome = "CC" THEN <<base_step, 0, 1>>
        ELSE IF outcome = "CD" THEN <<-(2 * base_step), 1, 0>>
        ELSE IF outcome = "DC" THEN <<-Dec(5, 100), 0, 0>>
        ELSE <<-Dec(1, 10), 0, 0>>

\* a streak that only a betrayal or mutual defection resets
StreakAfter_NoReset(coop_streak, outcome, dcoop) ==
    IF outcome \in {"CD", "DD"} THEN 0 ELSE coop_streak + dcoop

\* the cooperation streak after an outcome
StreakAfter(coop_streak, outcome, dcoop) ==
    IF outcome = "CC" THEN coop_streak + dcoop ELSE 0

\* update_trust_state on a known outcome (already upper-cased): the new
\* TrustState and the deltas dict
update_trust_state(state, outcome, awe_boost, boredom_boost, gossip_delta, bounce) ==
    LET eff == outcome_effects(outcome)
        daff == eff[1]
        dbetray == eff[2]
        dcoop == eff[3]
        boredom == clamp(state.boredom + boredom_boost, 0, Scale)
        aff1 == state.affinity + daff
        aff2 == IF bounce > 0
                THEN aff1 - Mul(Mul(bounce, Dec(5, 10) + Mul(Dec(5, 10), boredom)), aff1)
                ELSE aff1
    IN  [state |->
            [affinity |-> clamp(aff2, -Scale, Scale),
             gossip_bias |-> clamp(state.gossip_bias + gossip_delta, -Scale, Scale),
             awe |-> clamp(state.awe + awe_boost, 0, Scale),
             boredom |-> boredom,
             last_outcome |-> outcome,
             betrayal_count |-> state.betrayal_count + dbetray,
             cooperation_streak |-> StreakAfter(state.cooperation_streak, outcome, dcoop),
             expected_strategy |-> state.expected_strategy],
         deltas |->
            [delta_affinity |-> daff,
             delta_betrayal |-> dbetray,
             delta_coop_streak |-> dcoop,
             delta_grace |-> Dec(5, 100) * dcoop - Dec(5, 100) * dbetray,
             delta_mental_strain |-> Dec(1, 10) * dbetray - Dec(2, 100) * dcoop]]

\* ------------------------------------------------------------------------
\* fizban_fate.py
\* ------------------------------------------------------------------------

\* a fate update whose weird_mode, once on, stays on
apply_trust_deltas_to_fate_Sticky(fate, deltas, awe, boredom) ==
    LET g == clamp(fate.grace + Mul(Dec(2, 100), Dec(5, 10) - fate.grace)
                   + deltas.delta_grace, 0, Scale)
        s == clamp(fate.mental_strain + deltas.delta_mental_strain
                   - Mul(Dec(3, 100), awe) + Mul(Dec(3, 100), boredom), 0, Scale)
        target_bounce == Dec(3, 10) + Mul(Dec(7, 10), g) - Mul(Dec(5, 10), s)
        b == clamp(fate.bounce_back + Mul(Dec(1, 10), target_bounce - fate.bounce_back),
                   0, Scale)
    IN  [grace |-> g,
         bounce_back |-> b,
         mental_strain |-> s,
         weird_mode |-> (fate.weird_mode \/ s > Dec(7, 10) \/ awe + s > Dec(12, 10))]

\* a fate update whose bounce_back jumps straight to its target
apply_trust_deltas_to_fate_Jump(fate, deltas, awe, boredom) ==
    LET g == clamp(fate.grace + Mul(Dec(2, 100), Dec(5, 10) - fate.grace)
                   + deltas.delta_grace, 0, Scale)
        s == clamp(fate.mental_strain + deltas.delta_mental_strain
                   - Mul(Dec(3, 100), awe) + Mul(Dec(3, 100), boredom), 0, Scale)
        target_bounce == Dec(3, 10) + Mul(Dec(7, 10), g) - Mul(Dec(5, 10), s)
    IN  [grace |-> g,
         bounce_back |-> clamp(target_bounce, 0, Scale),
         mental_strain |-> s,
         weird_mode |-> (s > Dec(7, 10) \/ awe + s > Dec(12, 10))]

\* apply_trust_deltas_to_fate
apply_trust_deltas_to_fate(fate, deltas, awe, boredom) ==
    LET g == clamp(fate.grace + Mul(Dec(2, 100), Dec(5, 10) - fate.grace)
                   + deltas.delta_grace, 0, Scale)
        s == clamp(fate.mental_strain + deltas.delta_mental_strain
                   - Mul(Dec(3, 100), awe) + Mul(Dec(3, 100), boredom), 0, Scale)
        target_bounce == Dec(3, 10) + Mul(Dec(7, 10), g) - Mul(Dec(5, 10), s)
        b == clamp(fate.bounce_back + Mul(Dec(1, 10), target_bounce - fate.bounce_back),
                   0, Scale)
    IN  [grace |-> g,
         bounce_back |-> b,
         mental_strain |-> s,
         weird_mode |-> (s > Dec(7, 10) \/ awe + s > Dec(12, 10))]

\* ------------------------------------------------------------------------
\* fizban_fate_demo.py : one link and its owner's fate, round after round
\* ------------------------------------------------------------------------

VARIABLES
    program,    \* which driver runs: "sim", "fate_demo" or "world"
    demo        \* the link, the fate, the latest deltas and the calls made
                \* (code, kw, fate_in: the arguments of the latest calls)

\* the keyword arguments of one update_trust_state call:
\* <<awe_boost, boredom_boost, gossip_delta, bounce>>
BoostInputs ==
    { <<Dec(5, 100), 0, 0, Dec(1, 10)>>,                 \* the demo's own values
      <<-(2 * Scale), 3 * Scale, 5 * Scale, 4 * Scale>>, \* far out of range
      <<2 * Scale, -Dec(5, 10), -(3 * Scale), 0>> }      \* out of range, no bounce

\* TrustState values a loop can start from
InitialLinks ==
    { \* init_trust_state("Lawful Good", "Chaotic Neutral", base_awe = 0.2)
      [affinity |-> -Dec(581, 1000), gossip_bias |-> 0, awe |-> Dec(2, 10), boredom |-> 0,
       last_outcome |-> "", betrayal_count |-> 0, cooperation_streak |-> 0,
       expected_strategy |-> "Random"],
      \* a link with a past
      [affinity |-> Dec(9, 10), gossip_bias |-> -Dec(5, 10), awe |-> Dec(6, 10),
       boredom |-> Dec(8, 10), last_outcome |-> "CC", betrayal_count |-> 2,
       cooperation_streak |-> 4, expected_strategy |-> "Copycat"] }

\* FateState values a loop can start from
InitialFates ==
    { \* init_fate_state("Lawful Good")
      [grace |-> Dec(6, 10), bounce_back |-> Dec(6, 10), mental_strain |-> Dec(1, 10),
       weird_mode |-> FALSE],
      \* close to the upper end of mental_strain
      [grace |-> Dec(5, 100), bounce_back |-> 0, mental_strain |-> Dec(95, 100),
       weird_mode |-> TRUE],
      \* weird through awe + mental_strain > 1.2 with mental_strain below 0.7,
      \* as an earlier update with awe 0.6 leaves it
      [grace |-> Dec(5, 10), bounce_back |-> Dec(4, 10), mental_strain |-> Dec(62, 100),
       weird_mode |-> TRUE],
      \* every field at an end of its range: bounce_back as far above its target
      \* as the ranges allow
      [grace |-> 0, bounce_back |-> Scale, mental_strain |-> Scale,
       weird_mode |-> TRUE] }

InitDemo ==
    \E l \in InitialLinks, f \in InitialFates :
       demo = [link |-> l, fate |-> f, first |-> l,
               deltas |-> [delta_affinity |-> 0, delta_betrayal |-> 0,
                           delta_coop_streak |-> 0, delta_grace |-> 0,
                           delta_mental_strain |-> 0],
               outcomes |-> <<>>, code |-> "", kw |-> <<0, 0, 0, 0>>,
               fate_in |-> f, raised |-> FALSE, steps |-> 0]

IdleDemo ==
    demo = [steps |-> 0]

\* One round of the demo loop: update_trust_state on the link, then
\* apply_trust_deltas_to_fate with the returned deltas and the new awe/boredom.
\* An unknown code raises ValueError inside _outcome_effects, before anything
\* is computed.
TrustFateStep ==
    /\ program = "fate_demo"
    /\ demo.steps < MaxSteps
    /\ \E code \in OutcomeCodes, kw \in BoostInputs :
       \E outcome \in {Upper(code)} :
          IF ~KnownOutcome(outcome)
          THEN demo' = [demo EXCEPT !.code = code, !.kw = kw,
                                    !.fate_in = demo.fate,
                                    !.raised = TRUE, !.steps = @ + 1]
          ELSE
            \E r \in {update_trust_state(demo.link, outcome, kw[1], kw[2], kw[3], kw[4])} :
            \E f \in {apply_trust_deltas_to_fate(demo.fate, r.deltas,
                                                 r.state.awe, r.state.boredom)} :
               demo' = [demo EXCEPT !.link = r.state,
                                    !.fate = f,
                                    !.deltas = r.deltas,
                                    !.outcomes = Append(@, outcome),
                                    !.code = code,
                                    !.kw = kw,
                                    !.fate_in = demo.fate,
                                    !.raised = FALSE,
                                    !.steps = @ + 1]

\* ------------------------------------------------------------------------
\* fizban_world_state.py
\* ------------------------------------------------------------------------

\* bound on the number of play_interaction calls in one behaviour
MaxInteractions == 3

\* largest k in lo..hi with k * k <= n, by bisection
RECURSIVE SqrtFloor(_, _, _)
SqrtFloor(n, lo, hi) ==
    IF lo >= hi THEN lo
    ELSE LET mid == (lo + hi + 1) \div 2
         IN  IF mid * mid <= n THEN SqrtFloor(n, mid, hi) ELSE SqrtFloor(n, lo, mid - 1)

\* math.sqrt of the float x (x >= 0), to the nearest unit
Sqrt(x) ==
    LET n == x * Scale
        k == SqrtFloor(n, 0, Max(x, Scale))
    IN  IF n > k * k + k THEN k + 1 ELSE k

\* the float quotient x / y (y > 0)
Div(x, y) == Round(x * Scale, y)

\* alignment_to_coords
alignment_to_coords(aln) ==
    << CASE aln.law_chaos = "LAWFUL" -> 1
         [] aln.law_chaos = "NEUTRAL" -> 0
         [] aln.law_chaos = "CHAOTIC" -> -1,
       CASE aln.good_evil = "GOOD" -> 1
         [] aln.good_evil = "NEUTRAL" -> 0
         [] aln.good_evil = "EVIL" -> -1 >>

\* alignment_compatibility of fizban_world_state (the softened variant)
alignment_compatibility(a, b) ==
    LET ca == alignment_to_coords(a)
        cb == alignment_to_coords(b)
        dx == ca[1] - cb[1]
        dy == ca[2] - cb[2]
        dist == Sqrt((dx * dx + dy * dy) * Scale)
        max_dist == Sqrt(8 * Scale)
        norm == Max(0, Min(Scale, Scale - Div(dist, max_dist)))
    IN  Sqrt(norm)

\* _clamp(v, lo, hi)
_clamp(v, lo, hi) == Max(lo, Min(hi, v))

\* TrustState() of fizban_world_state, all defaults
DefaultTrust ==
    [affinity |-> 0, gossip_bias |-> 0, awe |-> 0, boredom |-> 0,
     betrayal_count |-> 0, cooperation_streak |-> 0, last_outcome |-> ""]

\* the baseline delta_affinity of _update_trust_for_outcome
WorldDeltaAffinity(outcome, compat) ==
    IF outcome = "CC" THEN Mul(Dec(15, 100), Dec(5, 10) + Mul(Dec(5, 10), compat))
    ELSE IF outcome = "DD"
         THEN -Mul(Dec(1, 10), Dec(5, 10) + Mul(Dec(5, 10), Scale - compat))
    ELSE IF outcome = "CD" THEN -Dec(3, 10)
    ELSE -Dec(5, 100)

\* the cooperation streak at the end of _update_trust_for_outcome
WorldStreakAfter(cooperation_streak, delta_coop_streak) ==
    IF delta_coop_streak > 0 THEN cooperation_streak + delta_coop_streak ELSE 0

\* the betrayal count at the end of _update_trust_for_outcome
WorldBetrayalAfter(betrayal_count, delta_betrayal) ==
    Max(0, betrayal_count + delta_betrayal)

\* _update_trust_for_outcome on a known outcome: the mutated TrustState and
\* the returned deltas
_update_trust_for_outcome(trust, outcome, compat) ==
    LET delta_affinity == WorldDeltaAffinity(outcome, compat)
        delta_betrayal == IF outcome = "CD" THEN 1 ELSE 0
        delta_coop_streak == IF outcome = "CC" THEN 1 ELSE 0
        awe == IF outcome = "CC" THEN _clamp(trust.awe + Dec(5, 100), 0, Scale)
               ELSE IF outcome = "DD" THEN _clamp(trust.awe - Dec(3, 100), 0, Scale)
               ELSE IF outcome = "CD" THEN _clamp(trust.awe - Dec(5, 100), 0, Scale)
               ELSE _clamp(trust.awe + Dec(2, 100), 0, Scale)
        boredom == IF outcome = "CC" THEN _clamp(trust.boredom - Dec(2, 100), 0, Scale)
                   ELSE IF outcome = "DD" THEN _clamp(trust.boredom + Dec(4, 100), 0, Scale)
                   ELSE IF outcome = "CD" THEN _clamp(trust.boredom + Dec(2, 100), 0, Scale)
                   ELSE _clamp(trust.boredom + Dec(1, 100), 0, Scale)
    IN  [trust |->
            [affinity |-> _clamp(trust.affinity + delta_affinity, -Scale, Scale),
             gossip_bias |-> trust.gossip_bias,
             awe |-> awe,
             boredom |-> boredom,
             betrayal_count |-> WorldBetrayalAfter(trust.betrayal_count, delta_betrayal),
             cooperation_streak |->
                 WorldStreakAfter(trust.cooperation_streak, delta_coop_streak),
             last_outcome |-> outcome],
         deltas |-> [delta_affinity |-> delta_affinity,
                     delta_betrayal |-> delta_betrayal,
                     delta_coop_streak |-> delta_coop_streak]]

\* _update_fate_for_outcome on a known outcome; trust is the link as
\* _update_trust_for_outcome left it
_update_fate_for_outcome(fate, trust, outcome) ==
    LET complacence == trust.awe - trust.boredom
        delta_grace == IF outcome = "CC" THEN Dec(5, 100) + Mul(Dec(2, 100), complacence)
                       ELSE IF outcome = "DD" THEN -Dec(3, 100)
                       ELSE IF outcome = "CD" THEN -Dec(5, 100)
                       ELSE -Dec(2, 100)
        delta_strain == IF outcome = "CC" THEN -Dec(2, 100)
                        ELSE IF outcome = "DD"
                             THEN Dec(4, 100) + Dec(2, 100) * Max(0, trust.betrayal_count)
                        ELSE IF outcome = "CD" THEN Dec(1, 10)
                        ELSE Dec(3, 100)
        delta_bounce == IF outcome = "CC" THEN Dec(1, 100)
                        ELSE IF outcome = "DD" THEN -Dec(1, 100)
                        ELSE IF outcome = "CD" THEN -Dec(2, 100)
                        ELSE 0
        strain == _clamp(fate.mental_strain + delta_strain, 0, Scale)
    IN  [fate |-> [grace |-> _clamp(fate.grace + delta_grace, 0, Scale),
                   bounce_back |-> _clamp(fate.bounce_back + delta_bounce, 0, Scale),
                   mental_strain |-> strain,
                   weird_mode |-> strain > Dec(7, 10)],
         deltas |-> [delta_grace |-> delta_grace,
                     delta_mental_strain |-> delta_strain,
                     delta_bounce_back |-> delta_bounce]]

\* _mirror_outcome on a known outcome
_mirror_outcome(outcome) ==
    IF outcome \in {"CC", "DD"} THEN outcome
    ELSE IF outcome = "CD" THEN "DC"
    ELSE "CD"

\* the crude emotion label of play_interaction
EmotionLabel(awe_level, boredom_level) ==
    IF awe_level > Dec(5, 10) THEN "awe"
    ELSE IF boredom_level > Dec(5, 10) THEN "bored"
    ELSE "calm"

VARIABLES
    world,      \* WorldState: agents (name -> AgentRuntime) and history
    wcall       \* the latest play_interaction call: did it raise, calls so far

ActorNames == {"Paladin", "Puck"}

\* AgentRuntime as init_world_from_configs builds it
AgentRuntime(law_chaos, good_evil, fate, trust) ==
    [alignment |-> [law_chaos |-> law_chaos, good_evil |-> good_evil],
     fate |-> fate,
     trust |-> trust,
     current_emotion |-> "calm",
     awe_level |-> 0,
     boredom_level |-> 0]

\* the agents maps a world can start from
InitialWorlds ==
    { \* no trust baselines: links are created by the first interaction
      [n \in ActorNames |->
         IF n = "Paladin"
         THEN AgentRuntime("LAWFUL", "GOOD",
                           [grace |-> Dec(6, 10), bounce_back |-> Dec(6, 10),
                            mental_strain |-> Dec(1, 10), weird_mode |-> FALSE],
                           EmptyDict)
         ELSE AgentRuntime("CHAOTIC", "NEUTRAL",
                           [grace |-> Dec(5, 10), bounce_back |-> Dec(7, 10),
                            mental_strain |-> Dec(2, 10), weird_mode |-> FALSE],
                           EmptyDict)],
      \* trust baselines with pre-seeded memories, opposed alignments
      [n \in ActorNames |->
         IF n = "Paladin"
         THEN AgentRuntime("LAWFUL", "GOOD",
                           [grace |-> Dec(9, 10), bounce_back |-> Scale,
                            mental_strain |-> 0, weird_mode |-> FALSE],
                           [k \in {"Puck"} |->
                              [affinity |-> Dec(8, 10), gossip_bias |-> Dec(1, 10),
                               awe |-> Dec(98, 100), boredom |-> 0,
                               betrayal_count |-> 1, cooperation_streak |-> 2,
                               last_outcome |-> ""]])
         ELSE AgentRuntime("CHAOTIC", "EVIL",
                           [grace |-> Dec(1, 100), bounce_back |-> 0,
                            mental_strain |-> Dec(65, 100), weird_mode |-> FALSE],
                           [k \in {"Paladin"} |->
                              [affinity |-> -Dec(9, 10), gossip_bias |-> 0,
                               awe |-> 0, boredom |-> Dec(97, 100),
                               betrayal_count |-> 3, cooperation_streak |-> 0,
                               last_outcome |-> ""]])] }

InitWorld ==
    /\ \E ags \in InitialWorlds : world = [agents |-> ags, first |-> ags, history |-> <<>>]
    /\ wcall = [outcome_pair |-> "", raised |-> FALSE, calls |-> 0]

IdleWorld ==
    /\ world = [calls |-> 0]
    /\ wcall = [outcome_pair |-> "", raised |-> FALSE, calls |-> 0]

\* a.trust.get(other) or TrustState()
TrustOrDefault(rt, other) ==
    IF other \in DOMAIN rt.trust THEN rt.trust[other] ELSE DefaultTrust

\* a rejection that comes after the get-or-create of both trust links
RejectedInteraction_LateCheck(w, actor_a, actor_b) ==
    [w EXCEPT !.agents =
        [n \in DOMAIN w.agents |->
            IF n = actor_a
            THEN [w.agents[n] EXCEPT !.trust = DictSet(@, actor_b,
                                         TrustOrDefault(w.agents[n], actor_b))]
            ELSE IF n = actor_b
            THEN [w.agents[n] EXCEPT !.trust = DictSet(@, actor_a,
                                         TrustOrDefault(w.agents[n], actor_a))]
            ELSE w.agents[n]]]

\* the world play_interaction leaves behind when it rejects outcome_pair: the
\* membership test is its first statement, so nothing has been touched
RejectedInteraction(w, actor_a, actor_b) == w

\* play_interaction(world, actor_a, actor_b, outcome_pair), actor_a # actor_b
PlayInteraction ==
    /\ program = "world"
    /\ wcall.calls < MaxInteractions
    /\ \E actor_a \in ActorNames, outcome_pair \in OutcomeCodes :
       \E actor_b \in ActorNames \ {actor_a} :
          IF ~KnownOutcome(outcome_pair)
          THEN /\ world' = RejectedInteraction(world, actor_a, actor_b)
               /\ wcall' = [outcome_pair |-> outcome_pair, raised |-> TRUE,
                            calls |-> wcall.calls + 1]
          ELSE
            \E a \in {world.agents[actor_a]}, b \in {world.agents[actor_b]} :
            \E compat \in {alignment_compatibility(a.alignment, b.alignment)} :
            \E ta \in {_update_trust_for_outcome(TrustOrDefault(a, actor_b),
                                                 outcome_pair, compat)},
               tb \in {_update_trust_for_outcome(TrustOrDefault(b, actor_a),
                                                 _mirror_outcome(outcome_pair), compat)} :
            \E fa \in {_update_fate_for_outcome(a.fate, ta.trust, outcome_pair)},
               fb \in {_update_fate_for_outcome(b.fate, tb.trust,
                                                _mirror_outcome(outcome_pair))} :
            \E a2 \in {[a EXCEPT !.trust = DictSet(a.trust, actor_b, ta.trust),
                                 !.fate = fa.fate,
                                 !.awe_level = ta.trust.awe,
                                 !.boredom_level = ta.trust.boredom,
                                 !.current_emotion =
                                     EmotionLabel(ta.trust.awe, ta.trust.boredom)]},
               b2 \in {[b EXCEPT !.trust = DictSet(b.trust, actor_a, tb.trust),
                                 !.fate = fb.fate,
                                 !.awe_level = tb.trust.awe,
                                 !.boredom_level = tb.trust.boredom,
                                 !.current_emotion =
                                     EmotionLabel(tb.trust.awe, tb.trust.boredom)]} :
               /\ world' =
                    [world EXCEPT
                       !.agents = [@ EXCEPT ![actor_a] = a2, ![actor_b] = b2],
                       !.history = Append(@,
                          [round |-> Len(world.history) + 1,
                           compatibility |-> compat,
                           outcome_pair |-> outcome_pair,
                           actor_a |-> [name |-> actor_a, outcome |-> outcome_pair,
                                        trust |-> ta.trust, fate |-> fa.fate,
                                        trust_deltas |-> ta.deltas,
                                        fate_deltas |-> fa.deltas],
                           actor_b |-> [name |-> actor_b,
                                        outcome |-> _mirror_outcome(outcome_pair),
                                        trust |-> tb.trust, fate |-> fb.fate,
                                        trust_deltas |-> tb.deltas,
                                        fate_deltas |-> fb.deltas]])]
               /\ wcall' = [outcome_pair |-> outcome_pair, raised |-> FALSE,
                            calls |-> wcall.calls + 1]

\* ------------------------------------------------------------------------
\* The module-level random generator (import random)
\* ------------------------------------------------------------------------

VARIABLES
    rng         \* the generator: the seed it was last seeded with, the number
                \* of values drawn since, and the values its streams have
                \* shown so far (stream[<<seed, pos>>])

\* bound on the number of roll_destiny calls in one behaviour
MaxRolls == 2

\* seeds a caller passes to random.seed; OsSeed stands for the seeding from
\* system entropy at import
OsSeed == 0

SeedValues == {42}

\* what one step of the generator can yield: three representative values
RawDraws == {1, 2, 3}

\* random.randint(1, 20) on a generator value: a low, a middle and a high face
D20(raw) == IF raw = 1 THEN 1 ELSE IF raw = 2 THEN 12 ELSE 20

\* the generator as the interpreter starts it
InitRng ==
    rng = [seed |-> OsSeed, pos |-> 0, stream |-> EmptyDict]

\* a generator that ignores its seed: every read may yield any value
StreamAt_Unseeded(g, seed, pos) == RawDraws

\* the values the generator can yield at <<seed, pos>>: the value its stream
\* has already shown there, or any value if that position is new
StreamAt(g, seed, pos) ==
    IF <<seed, pos>> \in DOMAIN g.stream THEN {g.stream[<<seed, pos>>]} ELSE RawDraws

\* the generator after n values raws[1..n] were drawn from it
RngAfter(g, raws) ==
    [seed |-> g.seed,
     pos |-> g.pos + Len(raws),
     stream |-> [k \in DOMAIN g.stream \cup {<<g.seed, g.pos + i - 1>> : i \in 1..Len(raws)} |->
                    IF k \in DOMAIN g.stream THEN g.stream[k]
                    ELSE raws[k[2] - g.pos + 1]]]

\* random.seed(seed): the generator restarts the stream of that seed
random_seed(g, seed) == [g EXCEPT !.seed = seed, !.pos = 0]

\* ------------------------------------------------------------------------
\* fizban_fate.py : roll_destiny
\* ------------------------------------------------------------------------

\* int(x) without round(): the fraction is cut off, toward zero
PyTrunc(x) == IF x >= 0 THEN x \div Scale ELSE -((-x) \div Scale)

\* round(x) of Python 3 on a float x, as an integer: halves go to the even side
PyRound(x) ==
    LET f == x \div Scale
        r == x % Scale
    IN  IF 2 * r < Scale THEN f
        ELSE IF 2 * r > Scale THEN f + 1
        ELSE IF f % 2 = 0 THEN f ELSE f + 1

\* a roll mode in which a weird fate follows its grace alone, not grace - strain
RollType_GraceOnly(fate) ==
    IF fate.weird_mode
    THEN IF fate.grace >= Dec(5, 10) THEN "advantage" ELSE "disadvantage"
    ELSE "normal"

\* the roll mode roll_destiny settles on
RollType(fate) ==
    IF fate.weird_mode
    THEN IF fate.grace - fate.mental_strain >= 0 THEN "advantage" ELSE "disadvantage"
    ELSE "normal"

\* the number of d20 draws of a roll
DrawsOfRoll(fate) == IF RollType(fate) = "normal" THEN 1 ELSE 2

\* a roll that spends the weird state of the fate it is given
FateAfterRoll_SpendsWeird(fate) == [fate EXCEPT !.weird_mode = FALSE]

\* the FateState object after roll_destiny has run on it: it is only read
FateAfterRoll(fate) == fate

\* roll_destiny(fate, label, dc); draws holds the d20 values rolled, in order
roll_destiny(fate, dc, draws) ==
    LET grace_mod == PyRound((fate.grace - Dec(5, 10)) * 4)
        strain_penalty == PyRound(fate.mental_strain * 2)
        roll_type == RollType(fate)
        base_roll == IF roll_type = "normal" THEN draws[1]
                     ELSE IF roll_type = "advantage" THEN Max(draws[1], draws[2])
                     ELSE Min(draws[1], draws[2])
        total == base_roll + grace_mod - strain_penalty
    IN  [base_roll |-> base_roll,
         grace_mod |-> grace_mod,
         strain_penalty |-> strain_penalty,
         total |-> total,
         dc |-> dc,
         success |-> (total >= dc),
         roll_type |-> roll_type,
         fate_snapshot |-> fate]

VARIABLES
    destiny     \* the fates rolled on, the latest roll and every roll made

\* DCs a caller rolls against: the default and the highest total that can occur
DifficultyClasses == {12, 22}

\* pairs of FateStates a caller can hold when it rolls
DestinyFates ==
    { \* init_fate_state("Lawful Good"), init_fate_state("Chaotic Neutral")
      [Paladin |-> [grace |-> Dec(6, 10), bounce_back |-> Dec(6, 10),
                    mental_strain |-> Dec(1, 10), weird_mode |-> FALSE],
       Puck |-> [grace |-> Dec(5, 10), bounce_back |-> Dec(7, 10),
                 mental_strain |-> Dec(2, 10), weird_mode |-> FALSE]],
      \* the two ends: blessed and calm, graceless and strained, both weird
      [Paladin |-> [grace |-> Scale, bounce_back |-> Scale,
                    mental_strain |-> 0, weird_mode |-> TRUE],
       Puck |-> [grace |-> 0, bounce_back |-> 0,
                 mental_strain |-> Scale, weird_mode |-> TRUE]],
      \* halves for round(): (0.625 - 0.5) * 4 = 0.5, 0.25 * 2 = 0.5, 0.75 * 2 = 1.5;
      \* Puck weird with grace = mental_strain
      [Paladin |-> [grace |-> Dec(625, 1000), bounce_back |-> Dec(5, 10),
                    mental_strain |-> Dec(25, 100), weird_mode |-> FALSE],
       Puck |-> [grace |-> Dec(75, 100), bounce_back |-> Dec(3, 10),
                 mental_strain |-> Dec(75, 100), weird_mode |-> TRUE]],
      \* more halves: (0.875 - 0.5) * 4 = 1.5, (0.125 - 0.5) * 4 = -1.5; both
      \* weird with mental_strain above grace, Puck through awe alone
      [Paladin |-> [grace |-> Dec(875, 1000), bounce_back |-> Dec(5, 10),
                    mental_strain |-> Dec(9, 10), weird_mode |-> TRUE],
       Puck |-> [grace |-> Dec(125, 1000), bounce_back |-> Dec(5, 10),
                 mental_strain |-> Dec(62, 100), weird_mode |-> TRUE]] }

NoRoll == [rng_seed |-> OsSeed, rng_pos |-> 0, who |-> "", dc |-> 0, draws |-> <<>>,
           result |-> [base_roll |-> 0]]

InitDestiny ==
    \E fs \in DestinyFates :
       destiny = [fates |-> fs, last |-> NoRoll, made |-> {}, rolls |-> 0]

IdleDestiny ==
    destiny = [rolls |-> 0]

\* random.seed(seed) by the caller
SeedRandom ==
    /\ program = "destiny"
    /\ destiny.rolls < MaxRolls
    /\ \E seed \in SeedValues :
          /\ rng # random_seed(rng, seed)
          /\ rng' = random_seed(rng, seed)
    /\ UNCHANGED destiny

\* roll_destiny(fates[who], label, dc): the d20 values come from the generator
RollDestiny ==
    /\ program = "destiny"
    /\ destiny.rolls < MaxRolls
    /\ \E who \in ActorNames, dc \in DifficultyClasses :
       \E fate \in {destiny.fates[who]} :
       \E raw1 \in StreamAt(rng, rng.seed, rng.pos) :
       \E raw2 \in IF DrawsOfRoll(fate) = 2
                   THEN StreamAt(RngAfter(rng, <<raw1>>), rng.seed, rng.pos + 1)
                   ELSE {raw1} :
       \E raws \in {IF DrawsOfRoll(fate) = 2 THEN <<raw1, raw2>> ELSE <<raw1>>} :
       \E roll \in {[rng_seed |-> rng.seed, rng_pos |-> rng.pos, who |-> who, dc |-> dc,
                     draws |-> [i \in 1..Len(raws) |-> D20(raws[i])],
                     result |-> roll_destiny(fate, dc,
                                             [i \in 1..Len(raws) |-> D20(raws[i])])]} :
          /\ rng' = RngAfter(rng, raws)
          /\ destiny' = [destiny EXCEPT
                            !.fates = [@ EXCEPT ![who] = FateAfterRoll(fate)],
                            !.last = roll,
                            !.made = @ \cup {roll},
                            !.rolls = @ + 1]

\* ------------------------------------------------------------------------
\* Rounds on two disjoint pairs, (a, b) and (c, d), in one interpreter
\* ------------------------------------------------------------------------

\* random.random() on a generator value, as a fixed-point number in [0, 1)
random_random(raw) == IF raw = 1 THEN Dec(1, 10) ELSE IF raw = 2 THEN Dec(55, 100) ELSE Dec(9, 10)

\* a decide_action that draws for every unforced agent, whatever its strategy
DrawsNeeded_Always(ag, forced) == IF forced \notin Actions THEN 1 ELSE 0

\* number of random.random() calls decide_action makes for an agent: the
\* baseline is computed first, whatever p_coop turns out to be, and only the
\* simpleton and random branches draw; a forced action skips decide_action
DrawsNeeded(ag, forced) ==
    IF forced \notin Actions /\ ag.trust_strategy \in {"simpleton", "random"} THEN 1 ELSE 0

\* run_round(a, b, forced_a, forced_b) on agents whose ids are strings (nothing
\* raises): the two agents as the call leaves them and the summary it returns;
\* draw_a, draw_b are the values random.random() returns to a's and b's baseline
run_round(a, b, forced_a, forced_b, draw_a, draw_b) ==
    LET s_interest == shared_interest_score(a, b)
        action_a == IF forced_a \in Actions THEN forced_a
                    ELSE decide_action(a, b, s_interest, draw_a)
        action_b == IF forced_b \in Actions THEN forced_b
                    ELSE decide_action(b, a, s_interest, draw_b)
        pay == payoff(action_a, action_b)
        betrayal_a == action_a = "C" /\ action_b = "D"
        betrayal_b == action_b = "C" /\ action_a = "D"
        a1 == update_trust_after_interaction(a, b.id, outcome_for(action_a, action_b))
        b1 == update_trust_after_interaction(b, a.id, outcome_for(action_b, action_a))
        a2 == apply_emotional_impact(a1, Mul(Dec(25, 100), pay[1]), betrayal_a, b.id)
        b2 == apply_emotional_impact(b1, Mul(Dec(25, 100), pay[2]), betrayal_b, a.id)
        a3 == CooldownStep(a2, betrayal_a)
        b3 == CooldownStep(b2, betrayal_b)
    IN  [a |-> a3, b |-> b3,
         summary |-> RoundSummary(a3, b3, action_a, action_b, s_interest)]

VARIABLES
    pairs       \* the four agents, the pairs that have run (in order), the
                \* summary each call returned and the agents at the start

QuadIds == {"a", "b", "c", "d"}

PairNames == {"AB", "CD"}

\* the two agents of a pair: <<agent_a, agent_b>> of its run_round call
Members(p) == IF p = "AB" THEN <<"a", "b">> ELSE <<"c", "d">>

\* what a caller passes as (forced_action_a, forced_action_b): nothing, or the
\* injected betrayal of fizban_sim_series
ForcedPairs == {<<"None", "None">>, <<"C", "D">>}

\* an agent loaded from a document that gives only id and strategy
PlainAgent(id, strategy) ==
    AgentState(id, "str", {}, "neutral", strategy, EmptyDict, EmptyDict,
               0, 0, 0, 0, 0, 0, EmptyDict)

InitPairs ==
    \E sa \in {"copycat", "random"}, sb \in {"cheater", "simpleton"},
       sc \in {"cooperator", "simpleton"}, sd \in {"grudger", "random"} :
       \E ags \in {[x \in QuadIds |->
                      IF x = "a" THEN PlainAgent("a", sa)
                      ELSE IF x = "b" THEN PlainAgent("b", sb)
                      ELSE IF x = "c" THEN PlainAgent("c", sc)
                      ELSE PlainAgent("d", sd)]} :
          pairs = [agents |-> ags, first |-> ags, order |-> <<>>,
                   forced |-> [p \in PairNames |-> <<"None", "None">>],
                   summaries |-> [p \in PairNames |-> <<>>]]

IdlePairs ==
    pairs = [order |-> <<>>]

\* the agents a run_round call on (x, y) leaves behind: only x and y are
\* passed to it, and it reaches no other agent
AgentsAfterRound(ags, x, y, r) == [ags EXCEPT ![x] = r.a, ![y] = r.b]

\* run_round on pair p: each unforced simpleton or random agent takes the next
\* value of the module generator, agent_a before agent_b
PairRound ==
    /\ program = "pairs"
    /\ \E p \in PairNames, forced \in ForcedPairs :
          /\ \A i \in DOMAIN pairs.order : pairs.order[i] # p
          /\ \E x \in {Members(p)[1]}, y \in {Members(p)[2]} :
             \E na \in {DrawsNeeded(pairs.agents[x], forced[1])},
                nb \in {DrawsNeeded(pairs.agents[y], forced[2])} :
             \E raw1 \in IF na + nb >= 1 THEN StreamAt(rng, rng.seed, rng.pos) ELSE {1} :
             \E raw2 \in IF na + nb = 2
                         THEN StreamAt(RngAfter(rng, <<raw1>>), rng.seed, rng.pos + 1)
                         ELSE {1} :
             \E raws \in {IF na + nb = 2 THEN <<raw1, raw2>>
                          ELSE IF na + nb = 1 THEN <<raw1>> ELSE <<>>} :
             \E r \in {run_round(pairs.agents[x], pairs.agents[y], forced[1], forced[2],
                                 IF na = 1 THEN random_random(raw1) ELSE 0,
                                 IF nb = 1 THEN random_random(raws[na + 1]) ELSE 0)} :
                /\ rng' = RngAfter(rng, raws)
                /\ pairs' = [pairs EXCEPT
                                !.agents = AgentsAfterRound(@, x, y, r),
                                !.order = Append(@, p),
                                !.forced[p] = forced,
                                !.summaries[p] = <<r.summary>>]

\* ------------------------------------------------------------------------
\* fizban_sim_series.py : an N-round series with an injected betrayal
\* ------------------------------------------------------------------------

VARIABLES
    series      \* the arguments --rounds (n) and --betrayal-round-b (k: <<>> when
                \* the option is absent, else <<K>>), the two agents, and the
                \* records written so far

\* bound on --rounds
MaxSeriesRounds == 3

\* a loop body that compares the 0-based loop index with --betrayal-round-b
InjectedForced_ZeroBased(k, round_num) ==
    IF k # <<>> /\ round_num - 1 = k[1] THEN <<"C", "D", TRUE>>
    ELSE <<"None", "None", FALSE>>

\* <<forced_a, forced_b, betrayal_injected>> of round round_num
InjectedForced(k, round_num) ==
    IF k # <<>> /\ round_num = k[1] THEN <<"C", "D", TRUE>>
    ELSE <<"None", "None", FALSE>>

\* the values of --betrayal-round-b: absent, or an integer that may fall
\* outside 1..n
BetrayalRounds == {<<>>} \cup {<<K>> : K \in 0..(MaxSeriesRounds + 1)}

InitSeries ==
    \E n \in 0..MaxSeriesRounds, k \in BetrayalRounds,
       sa \in {"cheater", "copycat", "random"}, sb \in {"cooperator", "cheater"} :
       series = [n |-> n, k |-> k, i |-> 0,
                 agents |-> [x \in AgentIds |->
                               IF x = "a" THEN PlainAgent("a", sa)
                               ELSE PlainAgent("b", sb)],
                 records |-> <<>>]

IdleSeries ==
    series = [i |-> 0]

\* One pass of the loop "for i in range(args.rounds)": the record written is
\* the summary of run_round (kept under "summary") with the keys "round" and
\* "betrayal_injected_b" added.
SeriesStep ==
    /\ program = "series"
    /\ series.i < series.n
    /\ \E round_num \in {series.i + 1} :
       \E inj \in {InjectedForced(series.k, round_num)} :
       \E draw_a \in DrawsFor(series.agents["a"]), draw_b \in DrawsFor(series.agents["b"]) :
       \E r \in {run_round(series.agents["a"], series.agents["b"],
                           inj[1], inj[2], draw_a, draw_b)} :
          series' = [series EXCEPT
                        !.i = round_num,
                        !.agents = [x \in AgentIds |-> IF x = "a" THEN r.a ELSE r.b],
                        !.records = Append(@, [round |-> round_num,
                                               betrayal_injected_b |-> inj[3],
                                               summary |-> r.summary])]

\* ------------------------------------------------------------------------
\* A long scripted series: run_round again and again on the same two agents,
\* both actions forced, with no end to the number of rounds
\* ------------------------------------------------------------------------

VARIABLES
    recovery    \* the two agents; calm: the rounds since agent a was last
                \* betrayed (counted up to MaxCalm); c0: a's cooldown when that
                \* run of rounds began; betrayed: a was betrayed in the latest round

\* the count of rounds without a betrayal stops here
MaxCalm == 10

\* bound on the rounds with a betrayal (of either agent) a script opens with
MaxSpikes == 2

\* emotion.valence, emotion.strain, emotion.weird_mode and bounce_back.cooldown
\* of agent a as loaded: strained to the limit, hurt and strained, pleased and
\* tense, and at rest
RecoveryStarts ==
    { <<0, Scale, TRUE>>,
      <<-Dec(9, 10), Dec(8, 10), TRUE>>,
      <<Dec(6, 10), Dec(5, 10), TRUE>>,
      <<0, Dec(2, 10), FALSE>> } \X {0, 3}

\* the rounds of a script once its opening is over: mutual cooperation only,
\* mutual defection only, or the two in any order
Scripts == {"CC", "DD", "mixed"}

InitRecovery ==
    \E st \in RecoveryStarts, script \in Scripts :
       recovery =
          [agents |-> [x \in AgentIds |->
                         IF x = "a"
                         THEN [AgentState("a", "str", {}, "neutral", "copycat",
                                          EmptyDict, EmptyDict, st[1][1], st[1][2],
                                          0, 0, 0, st[2], EmptyDict)
                                  EXCEPT !.emotion.weird_mode = st[1][3]]
                         ELSE PlainAgent("b", "copycat")],
           script |-> script,
           calm |-> 0, c0 |-> st[2], betrayed |-> FALSE, spikes |-> 0]

IdleRecovery ==
    recovery = [calm |-> 0]

\* the run length after one more round
CalmAfter(calm, betrayed) == IF betrayed THEN 0 ELSE Min(calm + 1, MaxCalm)

\* the scripts played: up to MaxSpikes rounds in which one agent betrays the
\* other, then the rounds of the script, without end
Scripted(rec) ==
    {p \in {<<"C", "C">>, <<"D", "D">>} : rec.script \in {"mixed", p[1] \o p[2]}}
       \cup (IF rec.calm = 0 /\ rec.spikes < MaxSpikes
             THEN {<<"C", "D">>, <<"D", "C">>} ELSE {})

\* one more run_round call with both actions forced
RecoveryStep ==
    /\ program = "recovery"
    /\ \E forced \in Scripted(recovery) :
       \E forced_a \in {forced[1]}, forced_b \in {forced[2]} :
       \E r \in {run_round(recovery.agents["a"], recovery.agents["b"],
                           forced_a, forced_b, 0, 0)} :
          recovery' = [agents |-> [x \in AgentIds |-> IF x = "a" THEN r.a ELSE r.b],
                       script |-> recovery.script,
                       calm |-> CalmAfter(recovery.calm, r.summary.betrayal_a),
                       c0 |-> IF r.summary.betrayal_a THEN r.a.bounce_back.cooldown
                              ELSE recovery.c0,
                       betrayed |-> r.summary.betrayal_a,
                       spikes |-> IF forced_a # forced_b THEN recovery.spikes + 1
                                  ELSE recovery.spikes]

\* ------------------------------------------------------------------------
\* The drivers
\* ------------------------------------------------------------------------

vars == <<program, agent, summary, call, rounds, demo, world, wcall, rng, destiny, pairs, series, recovery>>

IdleSim ==
    /\ agent = [x \in {} |-> 0]
    /\ summary = <<>>
    /\ call = NoCall
    /\ rounds = 0

Init ==
    /\ InitRng
    /\ \/ program = "sim" /\ InitSim /\ IdleDemo /\ IdleWorld /\ IdleDestiny /\ IdlePairs /\ IdleSeries /\ IdleRecovery
       \/ program = "fate_demo" /\ IdleSim /\ InitDemo /\ IdleWorld /\ IdleDestiny /\ IdlePairs /\ IdleSeries /\ IdleRecovery
       \/ program = "world" /\ IdleSim /\ IdleDemo /\ InitWorld /\ IdleDestiny /\ IdlePairs /\ IdleSeries /\ IdleRecovery
       \/ program = "destiny" /\ IdleSim /\ IdleDemo /\ IdleWorld /\ InitDestiny /\ IdlePairs /\ IdleSeries /\ IdleRecovery
       \/ program = "pairs" /\ IdleSim /\ IdleDemo /\ IdleWorld /\ IdleDestiny /\ InitPairs /\ IdleSeries /\ IdleRecovery
       \/ program = "series" /\ IdleSim /\ IdleDemo /\ IdleWorld /\ IdleDestiny /\ IdlePairs /\ InitSeries /\ IdleRecovery
       \/ /\ program = "recovery" /\ IdleSim /\ IdleDemo /\ IdleWorld /\ IdleDestiny
          /\ IdlePairs /\ IdleSeries /\ InitRecovery

\* fizban_sim_series: rounds between agent_a and agent_b
SimRound ==
    /\ program = "sim"
    /\ RunRound("a", "b")
    /\ UNCHANGED <<program, demo, world, wcall, rng, destiny, pairs, series, recovery>>

\* fizban_fate_demo: one round of the trust/fate loop
DemoRound ==
    /\ TrustFateStep
    /\ UNCHANGED <<program, agent, summary, call, rounds, world, wcall, rng, destiny, pairs, series, recovery>>

\* fizban_world_demo: one play_interaction call
WorldRound ==
    /\ PlayInteraction
    /\ UNCHANGED <<program, agent, summary, call, rounds, demo, rng, destiny, pairs, series, recovery>>

\* a caller of the fate engine seeds the generator
DestinySeed ==
    /\ SeedRandom
    /\ UNCHANGED <<program, agent, summary, call, rounds, demo, world, wcall, pairs, series, recovery>>

\* a caller of the fate engine rolls
DestinyRoll ==
    /\ RollDestiny
    /\ UNCHANGED <<program, agent, summary, call, rounds, demo, world, wcall, pairs, series, recovery>>

\* a world that runs one round on each of two disjoint pairs, in some order
PairsRound ==
    /\ PairRound
    /\ UNCHANGED <<program, agent, summary, call, rounds, demo, world, wcall, destiny, series, recovery>>

\* fizban_sim_series with --rounds and --betrayal-round-b: one pass of the loop
SeriesRound ==
    /\ SeriesStep
    /\ UNCHANGED <<program, agent, summary, call, rounds, demo, world, wcall, rng, destiny, pairs, recovery>>

\* a scripted series without end: one more round
RecoveryRound ==
    /\ RecoveryStep
    /\ UNCHANGED <<program, agent, summary, call, rounds, demo, world, wcall, rng, destiny, pairs, series>>

Next ==
    \/ SimRound \/ DemoRound \/ WorldRound \/ DestinySeed \/ DestinyRoll \/ PairsRound
    \/ SeriesRound \/ RecoveryRound

Spec == Init /\ [][Next]_vars

\* ------------------------------------------------------------------------
\* Properties
\* ------------------------------------------------------------------------

InSigned(x) == -Scale <= x /\ x <= Scale

InUnit(x) == 0 <= x /\ x <= Scale

\* the latest run_round call returned a summary
Returned == program = "sim" /\ rounds > 0 /\ ~call.raised

\* C1: whatever rounds have run, each agent's trust toward the other (and
\* every entry of its trust_matrix) and its valence are in [-1, 1], and its
\* strain and resentment are in [0, 1].
C1_Bounded ==
    program = "sim" =>
        \A x \in AgentIds :
            /\ InSigned(get_trust(agent[x], Other(x)))
            /\ \A k \in DOMAIN agent[x].trust_matrix : InSigned(agent[x].trust_matrix[k])
            /\ InSigned(agent[x].emotion.valence)
            /\ InUnit(agent[x].emotion.strain)
            /\ InUnit(agent[x].bounce_back.resentment)

\* a second betrayal in a row has driven a's trust to the floor
C1_Witness ==
    /\ Returned
    /\ rounds >= 2
    /\ Last.betrayal_a
    /\ Last.trust_a_after = -Scale
    /\ agent["a"].emotion.valence < -Dec(7, 10)

\* C2: after every round of the trust/fate loop the link and the fate are
\* within their ranges, and a call with a known outcome code is never
\* rejected, however far out of range its other arguments are.
C2_Clamped ==
    program = "fate_demo" =>
        /\ InSigned(demo.link.affinity)
        /\ InSigned(demo.link.gossip_bias)
        /\ InUnit(demo.link.awe)
        /\ InUnit(demo.link.boredom)
        /\ demo.link.betrayal_count >= 0
        /\ demo.link.cooperation_streak >= 0
        /\ InUnit(demo.fate.grace)
        /\ InUnit(demo.fate.mental_strain)
        /\ InUnit(demo.fate.bounce_back)
        /\ (demo.raised => ~KnownOutcome(Upper(demo.code)))

\* out-of-range boosts were accepted and clamped at both ends
C2_Witness ==
    /\ program = "fate_demo"
    /\ demo.steps >= 2
    /\ ~demo.raised
    /\ ~InSigned(demo.kw[3])
    /\ demo.link.gossip_bias = Scale
    /\ demo.link.awe = 0
    /\ demo.link.boredom = Scale
    /\ demo.fate.mental_strain = Scale

\* the sides of a history entry
Sides(entry) == {entry.actor_a, entry.actor_b}

\* C3: a CD outcome yields delta_affinity = -0.30 and a CC outcome a delta in
\* (0, 0.15], so for the same inputs the CD delta is the larger in magnitude;
\* in update_trust_state and in the world-state trust update alike.
C3_BetrayalAsymmetry ==
    /\ (program = "fate_demo" /\ demo.steps > 0 /\ ~demo.raised) =>
          LET d == demo.deltas.delta_affinity
          IN  /\ demo.link.last_outcome = "CD" =>
                    d = -Dec(3, 10) /\ Abs(d) > Abs(outcome_effects("CC")[1])
              /\ demo.link.last_outcome = "CC" =>
                    d > 0 /\ d <= Dec(15, 100) /\ Abs(d) < Abs(outcome_effects("CD")[1])
    /\ (program = "world" /\ world.history # <<>>) =>
          LET e == world.history[Len(world.history)]
          IN  \A side \in Sides(e) :
                LET d == side.trust_deltas.delta_affinity
                IN  /\ side.outcome = "CD" =>
                          /\ d = -Dec(3, 10)
                          /\ Abs(d) > Abs(WorldDeltaAffinity("CC", e.compatibility))
                    /\ side.outcome = "CC" =>
                          /\ d > 0 /\ d <= Dec(15, 100)
                          /\ Abs(d) < Abs(WorldDeltaAffinity("CD", e.compatibility))

\* a betrayal has just been applied to the link
C3_Witness ==
    /\ program = "fate_demo"
    /\ demo.steps >= 2
    /\ ~demo.raised
    /\ demo.link.last_outcome = "CD"
    /\ demo.deltas.delta_affinity = -Dec(3, 10)

\* C4: weird_mode has hysteresis.  In a round that ran apply_emotional_impact:
\* if it was true it stays true unless strain < 0.3 and |valence| < 0.7 hold
\* together after the update; if it was false it becomes true exactly when
\* |valence| > 0.95 or strain > 0.7 after the update.
C4_Hysteresis ==
    [][(program = "sim" /\ ~call'.raised) =>
          \A x \in AgentIds :
             LET v == agent'[x].emotion.valence
                 s == agent'[x].emotion.strain
                 calm == s < Dec(3, 10) /\ Abs(v) < Dec(7, 10)
                 hot == Abs(v) > Dec(95, 100) \/ s > Dec(7, 10)
             IN  /\ agent[x].emotion.weird_mode =>
                       (~calm => agent'[x].emotion.weird_mode)
                 /\ ~agent[x].emotion.weird_mode =>
                       (agent'[x].emotion.weird_mode <=> hot)]_vars

\* weird_mode is on although neither trigger holds: it was held over a round
C4_Witness ==
    /\ Returned
    /\ agent["a"].emotion.weird_mode
    /\ agent["a"].emotion.strain <= Dec(7, 10)
    /\ agent["a"].emotion.strain >= Dec(3, 10)
    /\ Abs(agent["a"].emotion.valence) <= Dec(95, 100)

\* the outcomes of a link, oldest first: x's outcome in each interaction
\* between x and y recorded in the history h
RECURSIVE LinkOutcomes(_, _, _)
LinkOutcomes(h, x, y) ==
    IF h = <<>> THEN <<>>
    ELSE LET e == h[Len(h)]
             before == LinkOutcomes(SubSeq(h, 1, Len(h) - 1), x, y)
         IN  IF e.actor_a.name = x /\ e.actor_b.name = y
             THEN Append(before, e.actor_a.outcome)
             ELSE IF e.actor_a.name = y /\ e.actor_b.name = x
             THEN Append(before, e.actor_b.outcome)
             ELSE before

\* number of consecutive CC at the end of a sequence of outcomes
RECURSIVE TrailingCC(_)
TrailingCC(seq) ==
    IF seq = <<>> \/ seq[Len(seq)] # "CC" THEN 0
    ELSE 1 + TrailingCC(SubSeq(seq, 1, Len(seq) - 1))

\* number of CD in a sequence of outcomes
RECURSIVE CountCD(_)
CountCD(seq) ==
    IF seq = <<>> THEN 0
    ELSE (IF seq[Len(seq)] = "CD" THEN 1 ELSE 0) + CountCD(SubSeq(seq, 1, Len(seq) - 1))

\* the streak a link must show after the outcomes seq
ExpectedStreak(initial, seq) ==
    IF TrailingCC(seq) = Len(seq) THEN initial + Len(seq) ELSE TrailingCC(seq)

\* C5: cooperation_streak is the number of consecutive CC outcomes at the end
\* of the link's outcomes, on top of the initial streak only when every
\* outcome was CC.
C5_Streak ==
    /\ program = "fate_demo" =>
          demo.link.cooperation_streak =
              ExpectedStreak(demo.first.cooperation_streak, demo.outcomes)
    /\ program = "world" =>
          \A x \in ActorNames : \A y \in ActorNames \ {x} :
              TrustOrDefault(world.agents[x], y).cooperation_streak =
                  ExpectedStreak(TrustOrDefault(world.first[x], y).cooperation_streak,
                                 LinkOutcomes(world.history, x, y))

\* a streak was broken and rebuilt: ..., not CC, CC
C5_Witness ==
    /\ program = "fate_demo"
    /\ demo.first.cooperation_streak = 4
    /\ Len(demo.outcomes) = 3
    /\ demo.outcomes[2] = "DC"
    /\ demo.outcomes[3] = "CC"
    /\ demo.link.cooperation_streak = 1

\* C6: betrayal_count is its initial value plus the number of CD outcomes of
\* the link.
C6_BetrayalCount ==
    /\ program = "fate_demo" =>
          demo.link.betrayal_count =
              demo.first.betrayal_count + CountCD(demo.outcomes)
    /\ program = "world" =>
          \A x \in ActorNames : \A y \in ActorNames \ {x} :
              TrustOrDefault(world.agents[x], y).betrayal_count =
                  TrustOrDefault(world.first[x], y).betrayal_count
                      + CountCD(LinkOutcomes(world.history, x, y))

\* three interactions, one betrayal of Puck among outcomes of every other kind
C6_Witness ==
    /\ program = "world"
    /\ Len(world.history) = 3
    /\ LinkOutcomes(world.history, "Puck", "Paladin") = <<"DD", "CD", "DC">>
    /\ TrustOrDefault(world.agents["Puck"], "Paladin").betrayal_count = 4

\* C7 as stated: an unforced cheater plays D in every round
C7_CheaterAlwaysDefects ==
    Returned =>
        /\ (call.forced_a = "None" /\ agent["a"].trust_strategy = "cheater")
              => Last.action_a = "D"
        /\ (call.forced_b = "None" /\ agent["b"].trust_strategy = "cheater")
              => Last.action_b = "D"

\* C7, amended: an unforced cheater's baseline action is D in every round, and
\* it plays D exactly when its p_cooperate is below 0.7 (from 0.7 up
\* decide_action overrides the baseline and the cheater plays C).
C7_CheaterBaseline ==
    Returned =>
        /\ (call.forced_a = "None" /\ agent["a"].trust_strategy = "cheater")
              => /\ call.base_a = "D"
                 /\ Last.action_a = "D" <=> call.p_coop_a < Dec(7, 10)
        /\ (call.forced_b = "None" /\ agent["b"].trust_strategy = "cheater")
              => /\ call.base_b = "D"
                 /\ Last.action_b = "D" <=> call.p_coop_b < Dec(7, 10)

\* a cheater that leans toward cooperation, but not strongly, still defects
C7_Witness ==
    /\ Returned
    /\ call.forced_a = "None"
    /\ agent["a"].trust_strategy = "cheater"
    /\ call.p_coop_a > Dec(5, 10)
    /\ call.p_coop_a < Dec(7, 10)
    /\ Last.action_a = "D"

\* C8: an unforced action is C when p_cooperate >= 0.7, D when
\* p_cooperate <= 0.3, and the strategy's baseline action in between.
C8_ThreeZones ==
    Returned =>
        /\ call.forced_a = "None" =>
              /\ call.p_coop_a >= Dec(7, 10) => Last.action_a = "C"
              /\ call.p_coop_a <= Dec(3, 10) => Last.action_a = "D"
              /\ (Dec(3, 10) < call.p_coop_a /\ call.p_coop_a < Dec(7, 10))
                    => Last.action_a = call.base_a
        /\ call.forced_b = "None" =>
              /\ call.p_coop_b >= Dec(7, 10) => Last.action_b = "C"
              /\ call.p_coop_b <= Dec(3, 10) => Last.action_b = "D"
              /\ (Dec(3, 10) < call.p_coop_b /\ call.p_coop_b < Dec(7, 10))
                    => Last.action_b = call.base_b

\* p_cooperate exactly 0.7 overrides a baseline of D
C8_Witness ==
    /\ Returned
    /\ call.forced_b = "None"
    /\ call.p_coop_b = Dec(7, 10)
    /\ call.base_b = "D"
    /\ Last.action_b = "C"

\* C9 as stated: a trust update called with a code outside {CC, CD, DC, DD}
\* raises and changes nothing, in update_trust_state and play_interaction alike
C9_AnyOtherCodeRejected ==
    [][/\ (program = "fate_demo" /\ ~KnownOutcome(demo'.code)) =>
             /\ demo'.raised
             /\ demo'.link = demo.link
             /\ demo'.fate = demo.fate
             /\ demo'.deltas = demo.deltas
             /\ demo'.outcomes = demo.outcomes
       /\ (program = "world" /\ ~KnownOutcome(wcall'.outcome_pair)) =>
             /\ wcall'.raised
             /\ world' = world]_vars

\* C9, amended: update_trust_state upper-cases the code first, and raises,
\* leaving the link, the fate and the deltas as they were, exactly when the
\* upper-cased code is outside {CC, CD, DC, DD} (so "cd" is applied as CD);
\* play_interaction compares the code as given, and raises, leaving every trust
\* link, fate and the history as they were, exactly when it is outside the set.
C9_UnknownOutcome ==
    [][/\ program = "fate_demo" =>
             /\ demo'.raised <=> ~KnownOutcome(Upper(demo'.code))
             /\ demo'.raised =>
                   /\ demo'.link = demo.link
                   /\ demo'.fate = demo.fate
                   /\ demo'.deltas = demo.deltas
                   /\ demo'.outcomes = demo.outcomes
             /\ ~demo'.raised =>
                   /\ demo'.link.last_outcome = Upper(demo'.code)
                   /\ demo'.outcomes = Append(demo.outcomes, Upper(demo'.code))
       /\ program = "world" =>
             /\ wcall'.raised <=> ~KnownOutcome(wcall'.outcome_pair)
             /\ wcall'.raised => world' = world
             /\ ~wcall'.raised => Len(world'.history) = Len(world.history) + 1]_vars

\* play_interaction rejected a call on a world that has no trust link yet
C9_Witness ==
    /\ program = "world"
    /\ wcall.raised
    /\ wcall.outcome_pair = "XX"
    /\ world.history = <<>>
    /\ \A n \in ActorNames : DOMAIN world.agents[n].trust = {}

\* C10 as stated: a run_round call that raises leaves both agents as they were
C10_Atomic ==
    [][(program = "sim" /\ call'.raised) => agent' = agent]_vars

\* run_round raised after a's trust was written and before b's was touched
C10_HalfUpdated ==
    /\ program = "sim"
    /\ call.raised
    /\ call.forced_a = "C"
    /\ call.forced_b = "D"
    /\ agent["a"].id_kind = "list"
    /\ "b" \in DOMAIN agent["a"].trust_matrix
    /\ agent["a"].trust_matrix["b"] = -Dec(35, 100)
    /\ agent["b"].trust_matrix = EmptyDict
    /\ agent["a"].emotion.valence = 0

StrainAfter(strain, betrayed, trust_after) ==
    IF betrayed
    THEN Min(Scale, strain + Dec(2, 10) + Mul(Dec(1, 10), Max(0, -trust_after)))
    ELSE Mul(strain, Dec(9, 10))

\* C12: in a round that returns, a betrayed agent's strain rises by
\* 0.2 + 0.1 * max(0, -t), clamped to 1, where t is its trust toward the
\* betrayer after this round's trust update; an agent that was not betrayed has
\* its strain multiplied by 0.9.
C12_StrainUsesUpdatedTrust ==
    [][(program = "sim" /\ ~call'.raised) =>
          /\ agent'["a"].emotion.strain =
                StrainAfter(agent["a"].emotion.strain, summary'[1].betrayal_a,
                            summary'[1].trust_a_after)
          /\ agent'["b"].emotion.strain =
                StrainAfter(agent["b"].emotion.strain, summary'[1].betrayal_b,
                            summary'[1].trust_b_after)
          /\ summary'[1].trust_a_after = get_trust(agent'["a"], "b")
          /\ summary'[1].trust_b_after = get_trust(agent'["b"], "a")]_vars

\* a betrayal turned a's trust from non-negative to negative, and a's strain,
\* zero before, is the spike computed from the negative trust
C12_Witness ==
    /\ Returned
    /\ Last.betrayal_a
    /\ call.trust_a_before >= 0
    /\ Last.trust_a_after < 0
    /\ Last.strain_a = Dec(2, 10) + Mul(Dec(1, 10), -Last.trust_a_after)

\* the cooldown a round must leave, given the cooldown before it, whether the
\* agent was betrayed and its strain after the round
CooldownAfter(cooldown, betrayed, strain_after) ==
    IF betrayed \/ strain_after > Dec(5, 10) THEN Max(cooldown, 2)
    ELSE IF cooldown > 0 THEN cooldown - 1
    ELSE 0

\* C13: after every round that returns, an agent that was betrayed or whose
\* strain after the round exceeds 0.5 has cooldown max(previous, 2); any other
\* agent has the previous cooldown minus 1, or 0 if it was 0; the cooldown is
\* never negative.
C13_Cooldown ==
    [][program = "sim" =>
          /\ \A x \in AgentIds : agent'[x].bounce_back.cooldown >= 0
          /\ ~call'.raised =>
                /\ agent'["a"].bounce_back.cooldown =
                      CooldownAfter(agent["a"].bounce_back.cooldown,
                                    summary'[1].betrayal_a,
                                    agent'["a"].emotion.strain)
                /\ agent'["b"].bounce_back.cooldown =
                      CooldownAfter(agent["b"].bounce_back.cooldown,
                                    summary'[1].betrayal_b,
                                    agent'["b"].emotion.strain)
                /\ summary'[1].cooldown_a = agent'["a"].bounce_back.cooldown
                /\ summary'[1].cooldown_b = agent'["b"].bounce_back.cooldown]_vars

\* a cooldown of 3 was kept, not cut to 2, by a round without betrayal that
\* left a's strain above 0.5
C13_Witness ==
    /\ Returned
    /\ ~Last.betrayal_a
    /\ Last.strain_a > Dec(5, 10)
    /\ Last.cooldown_a = 3

\* C14: after every apply_trust_deltas_to_fate, fate.weird_mode is exactly
\* (mental_strain > 0.7 or awe + mental_strain > 1.2) on the updated, clamped
\* mental_strain and the awe passed in (the link's awe after the trust update),
\* whatever weird_mode was before.
C14_FateWeirdMode ==
    (program = "fate_demo" /\ demo.steps > 0 /\ ~demo.raised) =>
        /\ InUnit(demo.fate.mental_strain)
        /\ demo.fate.weird_mode <=>
              \/ demo.fate.mental_strain > Dec(7, 10)
              \/ demo.link.awe + demo.fate.mental_strain > Dec(12, 10)

\* weird_mode was on going in and is off coming out, with mental_strain still
\* well above 0.3
C14_Witness ==
    /\ program = "fate_demo"
    /\ demo.steps > 0
    /\ ~demo.raised
    /\ demo.fate_in.weird_mode
    /\ ~demo.fate.weird_mode
    /\ demo.fate.mental_strain > Dec(5, 10)

\* a roll has been made
Rolled == program = "destiny" /\ destiny.rolls > 0

\* C15: when fate.weird_mode is true the roll mode depends only on
\* net = grace - mental_strain: net >= 0 gives advantage, base_roll the maximum
\* of two d20 draws; net < 0 gives disadvantage, the minimum of two draws; when
\* weird_mode is false the roll is normal and base_roll is a single draw.
C15_RollMode ==
    program = "destiny" =>
        \A roll \in destiny.made :
            LET fate == roll.result.fate_snapshot
                net == fate.grace - fate.mental_strain
                d == roll.draws
            IN  /\ (fate.weird_mode /\ net >= 0) =>
                      /\ roll.result.roll_type = "advantage"
                      /\ Len(d) = 2
                      /\ roll.result.base_roll = Max(d[1], d[2])
                /\ (fate.weird_mode /\ net < 0) =>
                      /\ roll.result.roll_type = "disadvantage"
                      /\ Len(d) = 2
                      /\ roll.result.base_roll = Min(d[1], d[2])
                /\ ~fate.weird_mode =>
                      /\ roll.result.roll_type = "normal"
                      /\ Len(d) = 1
                      /\ roll.result.base_roll = d[1]

\* a weird fate with grace above one half but below its strain rolled two
\* different faces at disadvantage and kept the lower one
C15_Witness ==
    /\ Rolled
    /\ \E roll \in destiny.made :
          /\ roll.result.fate_snapshot.weird_mode
          /\ roll.result.fate_snapshot.grace > Dec(5, 10)
          /\ roll.result.roll_type = "disadvantage"
          /\ roll.draws[1] > roll.draws[2]
          /\ roll.result.base_roll = roll.draws[2]

\* n is an integer nearest to the float x (a tie may go either way)
Nearest(n, x) == 2 * Abs(n * Scale - x) <= Scale

\* C16: for every fate with grace and mental_strain in [0, 1], roll_destiny
\* returns grace_mod = round((grace - 0.5) * 4) in -2..2, strain_penalty =
\* round(mental_strain * 2) in 0..2, base_roll in 1..20, total = base_roll +
\* grace_mod - strain_penalty, hence in -3..22, and success exactly when
\* total >= dc.
C16_RollArithmetic ==
    program = "destiny" =>
        \A roll \in destiny.made :
            LET fate == roll.result.fate_snapshot
                res == roll.result
            IN  (InUnit(fate.grace) /\ InUnit(fate.mental_strain)) =>
                  /\ Nearest(res.grace_mod, (fate.grace - Dec(5, 10)) * 4)
                  /\ res.grace_mod \in -2..2
                  /\ Nearest(res.strain_penalty, fate.mental_strain * 2)
                  /\ res.strain_penalty \in 0..2
                  /\ res.base_roll \in 1..20
                  /\ res.total = res.base_roll + res.grace_mod - res.strain_penalty
                  /\ res.total \in -3..22
                  /\ res.dc = roll.dc
                  /\ res.success <=> res.total >= res.dc

\* both ends of the range of total were rolled: -3, a failure, and 22 against
\* dc 22, a success
C16_Witness ==
    /\ Rolled
    /\ \E roll \in destiny.made : roll.result.total = -3 /\ ~roll.result.success
    /\ \E roll \in destiny.made :
          roll.result.total = 22 /\ roll.result.dc = 22 /\ roll.result.success

\* C17: roll_destiny changes no field of the FateState it is given, whatever
\* the roll mode and the dice; the fate_snapshot it returns is that FateState.
C17_RollLeavesFate ==
    [][program = "destiny" =>
          /\ destiny'.fates = destiny.fates
          /\ destiny'.rolls > destiny.rolls =>
                destiny'.last.result.fate_snapshot = destiny.fates[destiny'.last.who]]_vars

\* two rolls were made, the latest at advantage on a fate that is still weird
C17_Witness ==
    /\ Rolled
    /\ destiny.rolls = 2
    /\ destiny.last.result.roll_type = "advantage"
    /\ destiny.last.result.base_roll = 20
    /\ destiny.fates[destiny.last.who].weird_mode
    /\ destiny.fates[destiny.last.who] = destiny.last.result.fate_snapshot

C19_Payoffs ==
    Returned =>
        LET aa == Last.action_a
            ab == Last.action_b
        IN  /\ aa \in {"C", "D"} /\ ab \in {"C", "D"}
            /\ (aa = "C" /\ ab = "C") =>
                  Last.payoff_a_raw = 2 * Scale /\ Last.payoff_b_raw = 2 * Scale
            /\ (aa = "C" /\ ab = "D") =>
                  Last.payoff_a_raw = -Scale /\ Last.payoff_b_raw = 3 * Scale
            /\ (aa = "D" /\ ab = "C") =>
                  Last.payoff_a_raw = 3 * Scale /\ Last.payoff_b_raw = -Scale
            /\ (aa = "D" /\ ab = "D") =>
                  Last.payoff_a_raw = 0 /\ Last.payoff_b_raw = 0
            /\ 4 * Last.payoff_a_emotion = Last.payoff_a_raw
            /\ 4 * Last.payoff_b_emotion = Last.payoff_b_raw
            /\ Last.betrayal_a <=> (aa = "C" /\ ab = "D")
            /\ Last.betrayal_b <=> (ab = "C" /\ aa = "D")
            /\ ~(Last.betrayal_a /\ Last.betrayal_b)

\* an unforced round in which a cooperated and b defected
C19_Witness ==
    /\ Returned
    /\ call.forced_a = "None"
    /\ call.forced_b = "None"
    /\ Last.action_a = "C"
    /\ Last.action_b = "D"
    /\ Last.payoff_a_emotion = -Dec(25, 100)
    /\ Last.payoff_b_emotion = Dec(75, 100)
    /\ Last.betrayal_a

\* the first values of one stream of the generator, one for every agent
Streams == [1..Cardinality(QuadIds) -> RawDraws]

\* run_round on pair p with the generator at position pos of stream
RoundOn(ags, p, forced, stream, pos) ==
    LET x == Members(p)[1]
        y == Members(p)[2]
        na == DrawsNeeded(ags[x], forced[1])
        nb == DrawsNeeded(ags[y], forced[2])
        r == run_round(ags[x], ags[y], forced[1], forced[2],
                       IF na = 1 THEN random_random(stream[pos + 1]) ELSE 0,
                       IF nb = 1 THEN random_random(stream[pos + na + 1]) ELSE 0)
    IN  [agents |-> AgentsAfterRound(ags, x, y, r), summary |-> r.summary,
         pos |-> pos + na + nb]

\* the four agents and the two summaries after the call on pair p1 and then
\* the call on pair p2, the generator starting at the head of stream
InOrder(ags, forced, stream, p1, p2) ==
    LET r1 == RoundOn(ags, p1, forced[p1], stream, 0)
        r2 == RoundOn(r1.agents, p2, forced[p2], stream, r1.pos)
    IN  [agents |-> r2.agents,
         summaries |-> [p \in PairNames |-> IF p = p1 THEN <<r1.summary>>
                                            ELSE <<r2.summary>>]]

\* the call on pair p takes at least one value from the generator
PairDraws(ags, p, forced) ==
    \E i \in 1..2 : /\ forced[i] \notin {"C", "D"}
                    /\ ags[Members(p)[i]].trust_strategy \in {"simpleton", "random"}

\* the stream the generator has shown so far (1 where it was not read)
StreamShown(g) ==
    [i \in 1..Cardinality(QuadIds) |->
        IF <<g.seed, i - 1>> \in DOMAIN g.stream THEN g.stream[<<g.seed, i - 1>>] ELSE 1]

NoneForced == [p \in PairNames |-> <<"None", "None">>]

EntryOrZero(ag, other_id) ==
    IF other_id \in DOMAIN ag.trust_matrix THEN ag.trust_matrix[other_id] ELSE 0

TrustMoves(x, y, me, other) ==
    LET cur == EntryOrZero(agent[x], y)
        new == agent'[x].trust_matrix[y]
    IN  /\ y \in DOMAIN agent'[x].trust_matrix
        /\ (other = "C") => (new > cur \/ (new = Scale /\ cur = Scale))
        /\ (me = "D" /\ other = "D") => new = cur
        /\ (me = "C" /\ other = "D") => (new < cur \/ (new = -Scale /\ cur = -Scale))

TrustGrid ==
    {-Scale, -Dec(4, 10) - 1, -Dec(4, 10), -Dec(4, 10) + 1,
     -Dec(2, 10) - 1, -Dec(2, 10), -Dec(2, 10) + 1, -1, 0, 1, Scale}

TrustDriven == {"cooperator", "cheater", "copycat", "copykitten", "grudger"}

\* the baseline the specification's sentence gives: C unless t is below the
\* strategy's threshold
StatedBaseline(strat, t) ==
    IF strat = "cooperator" THEN "C"
    ELSE IF strat = "cheater" THEN "D"
    ELSE IF strat = "copycat" THEN (IF t < -Dec(2, 10) THEN "D" ELSE "C")
    ELSE IF strat = "copykitten" THEN (IF t < -Dec(4, 10) THEN "D" ELSE "C")
    ELSE IF t < 0 THEN "D" ELSE "C"

\* the same, except that copykitten already defects when t is exactly -0.4
ThresholdBaseline(strat, t) ==
    IF strat = "copykitten" /\ t = -Dec(4, 10) THEN "D" ELSE StatedBaseline(strat, t)

\* agent x with strategy strat and trust t toward the other agent
WithTrust(x, strat, t) ==
    [agent[x] EXCEPT !.trust_strategy = strat,
                     !.trust_matrix = DictSet(@, Other(x), t)]

\* C22 as stated: at every trust value, the thresholds included, cooperator
\* plays C, cheater D, copycat C unless t < -0.2, copykitten C unless t < -0.4,
\* grudger C unless t < 0
C22_BaselineAsStated ==
    program = "sim" =>
        /\ \A x \in AgentIds, strat \in TrustDriven, t \in TrustGrid :
              base_action_from_strategy(WithTrust(x, strat, t), Other(x), 0)
                 = StatedBaseline(strat, t)
        /\ (rounds > 0 /\ call.base_a # "" /\ agent["a"].trust_strategy \in TrustDriven)
           => call.base_a = StatedBaseline(agent["a"].trust_strategy, call.trust_a_before)

\* C22, amended: the same table, except that copykitten plays C only when
\* t > -0.4, so at t = -0.4 exactly its baseline is D
C22_Baseline ==
    program = "sim" =>
        /\ \A x \in AgentIds, strat \in TrustDriven, t \in TrustGrid :
              base_action_from_strategy(WithTrust(x, strat, t), Other(x), 0)
                 = ThresholdBaseline(strat, t)
        /\ (rounds > 0 /\ call.base_a # "" /\ agent["a"].trust_strategy \in TrustDriven)
           => call.base_a = ThresholdBaseline(agent["a"].trust_strategy, call.trust_a_before)
        /\ (rounds > 0 /\ call.base_b # "" /\ agent["b"].trust_strategy \in TrustDriven)
           => call.base_b = ThresholdBaseline(agent["b"].trust_strategy, call.trust_b_before)

\* a copykitten whose trust is exactly -0.4 had its baseline computed: D
C22_Witness ==
    /\ program = "sim"
    /\ rounds > 0
    /\ agent["a"].trust_strategy = "copykitten"
    /\ call.trust_a_before = -Dec(4, 10)
    /\ call.base_a = "D"

MoralAxes == {"good", "neutral", "evil"}

\* magnitude of the unclamped trust change of ag for a signed outcome
StepSize(ag, outcome) == Abs(Mul(TrustLearningRate(ag, outcome), outcome))

\* agent x with its moral axis replaced by m
WithMoral(x, m) == [agent[x] EXCEPT !.alignment.moral_axis = m]

BounceTarget(fate) ==
    Dec(3, 10) + Mul(Dec(7, 10), fate.grace) - Mul(Dec(5, 10), fate.mental_strain)

\* the latest round of the trust/fate loop updated the fate
FateUpdated == program = "fate_demo" /\ demo.steps > 0 /\ ~demo.raised

\* C24: after apply_trust_deltas_to_fate, bounce_back is
\* clamp(b + 0.1 * (target - b), 0, 1) with the target taken from the new grace
\* and mental_strain; it lies between the old value and the target and differs
\* from the old value by at most 0.12
C24_BounceLag ==
    FateUpdated =>
        LET b == demo.fate_in.bounce_back
            target == BounceTarget(demo.fate)
            new == demo.fate.bounce_back
        IN  /\ new = clamp(b + Mul(Dec(1, 10), target - b), 0, Scale)
            /\ Min(b, target) <= new
            /\ new <= Max(b, target)
            /\ Abs(new - b) <= Dec(12, 100)

\* bounce_back started at 1 with a target of -0.2, the largest gap the ranges
\* allow, and fell by exactly 0.12, remaining far from the target
C24_Witness ==
    /\ FateUpdated
    /\ demo.fate_in.bounce_back = Scale
    /\ BounceTarget(demo.fate) = -Dec(2, 10)
    /\ demo.fate.bounce_back = Dec(88, 100)

\* C25: in a series of n rounds with --betrayal-round-b K the records are
\* numbered 1, 2, ... in order (n of them when the loop ends); the record of
\* round K, and no other, has betrayal_injected_b true, and that record has
\* action_a = C, action_b = D and betrayal_a true whatever the agents'
\* strategies and trust; with K outside 1..n no record is injected
C25_InjectedBetrayal ==
    program = "series" =>
        /\ Len(series.records) = series.i
        /\ series.i <= series.n
        /\ \A j \in DOMAIN series.records :
              LET rec == series.records[j]
              IN  /\ rec.round = j
                  /\ rec.betrayal_injected_b <=> (series.k # <<>> /\ series.k[1] = j)
                  /\ rec.betrayal_injected_b =>
                        /\ rec.summary.action_a = "C"
                        /\ rec.summary.action_b = "D"
                        /\ rec.summary.betrayal_a
        /\ (series.k = <<>> \/ series.k[1] \notin 1..series.n)
           => \A j \in DOMAIN series.records : ~series.records[j].betrayal_injected_b
        /\ (series.i = series.n /\ series.k # <<>> /\ series.k[1] \in 1..series.n)
           => series.records[series.k[1]].betrayal_injected_b

\* a finished 3-round series of a cheater against a cooperator with K = 2:
\* round 1 is played D, C, round 2 is the injected C, D
C25_Witness ==
    /\ program = "series"
    /\ series.n = 3
    /\ series.i = 3
    /\ series.k = <<2>>
    /\ series.agents["a"].trust_strategy = "cheater"
    /\ series.agents["b"].trust_strategy = "cooperator"
    /\ series.records[1].summary.action_a = "D"
    /\ series.records[1].summary.action_b = "C"
    /\ ~series.records[1].betrayal_injected_b
    /\ series.records[2].betrayal_injected_b
    /\ series.records[2].summary.action_a = "C"
    /\ series.records[2].summary.action_b = "D"
    /\ ~series.records[3].betrayal_injected_b

\* the first returned round of agent x against y when x holds a gossip prior
\* toward y and no trust_matrix entry: get_trust after the round is get_trust
\* before it plus the round's signed learning-rate step, clamped
FromPrior(x, y, me, other) ==
    (y \notin DOMAIN agent[x].trust_matrix /\ y \in DOMAIN agent[x].gossip_bias)
    => get_trust(agent'[x], y)
          = ClampTrust(get_trust(agent[x], y)
                       + Mul(TrustLearningRate(agent[x], outcome_for(me, other)),
                             outcome_for(me, other)))

\* C26: for an agent with a gossip prior but no trust_matrix entry toward the
\* counterpart, the first interaction starts from the prior: get_trust after
\* the round is get_trust before it plus the signed step; creating the entry
\* never resets the trust to 0
C26_FirstRoundFromPrior ==
    [][(program = "sim" /\ rounds' = rounds + 1 /\ ~call'.raised) =>
          /\ FromPrior("a", "b", summary'[1].action_a, summary'[1].action_b)
          /\ FromPrior("b", "a", summary'[1].action_b, summary'[1].action_a)]_vars

\* agent a held the prior 0.5 toward b and no entry; after one round of mutual
\* cooperation its trust is the positive step counted from 0, below the prior
C26_PriorDropped ==
    /\ Returned
    /\ rounds = 1
    /\ agent["a"].gossip_bias = [k \in {"b"} |-> Dec(5, 10)]
    /\ call.trust_a_before = Dec(5, 10)
    /\ Last.action_a = "C"
    /\ Last.action_b = "C"
    /\ Last.trust_a_after = Mul(TrustLearningRate(agent["a"], Scale), Scale)
    /\ Last.trust_a_after < call.trust_a_before

\* C28: when agent a has not been betrayed for 6 + max(c, 2) rounds or more,
\* c being its cooldown when those rounds began, its cooldown is 0 (and so it
\* stays 0 for as long as the agent is not betrayed)
C28_CooldownReturns ==
    program = "recovery" =>
        /\ recovery.agents["a"].bounce_back.cooldown >= 0
        /\ recovery.calm >= 6 + Max(recovery.c0, 2)
           => recovery.agents["a"].bounce_back.cooldown = 0

\* a started at strain 1 with cooldown 3; nine rounds without a betrayal later
\* its cooldown has just reached 0
C28_Witness ==
    /\ program = "recovery"
    /\ recovery.c0 = 3
    /\ recovery.spikes = 0
    /\ recovery.calm = 9
    /\ recovery.agents["a"].emotion.strain = Dec(387, 1000)
    /\ recovery.agents["a"].bounce_back.cooldown = 0

\* the scripted series on its own: one kind of round repeated after the
\* opening, and no cooldown loaded (weird_mode does not read it)
LiveInit == Init /\ program = "recovery" /\ recovery.script # "mixed" /\ recovery.c0 = 0

LiveNext == RecoveryRound

\* the scripted series goes on for ever: its loop always starts the next round.
\* A round that leaves every field as it was (valence held at 1.0 by the clamp,
\* trust at 1.0, strain and resentment decayed as far as Scale resolves) is a
\* stuttering step, so a behaviour that ends in stuttering is a series that
\* goes on without change.
LiveSpec == LiveInit /\ [][LiveNext]_vars /\ WF_vars(LiveNext)

\* agent a of the scripted series is in weird mode
WeirdNow == program = "recovery" /\ recovery.agents["a"].emotion.weird_mode

\* agent a is out of weird mode, or the run of rounds without a betrayal of a
\* has just been broken
CalmOrBroken ==
    program = "recovery"
       /\ (~recovery.agents["a"].emotion.weird_mode \/ recovery.betrayed)

\* agent a's valence is 0.7 or more in magnitude
StrongValence ==
    program = "recovery" /\ Abs(recovery.agents["a"].emotion.valence) >= Dec(7, 10)

\* C27 as stated: from a state in which a's weird_mode is on, an unbroken run
\* of rounds in which a is not betrayed eventually turns it off
C27_WeirdModeRecovers ==
    [](WeirdNow => <>CalmOrBroken)

\* C27, amended: an unbroken run of rounds without a betrayal of a eventually
\* turns a's weird_mode off or brings its valence to 0.7 or more in magnitude;
\* and a round without a betrayal that leaves the valence at 0.7 or more never
\* turns weird_mode off (mutual cooperation adds 0.2 to the valence each round,
\* so repeated mutual cooperation ends with weird_mode on for good)
C27_RecoveryUnlessStrongValence ==
    /\ [](WeirdNow => <>(CalmOrBroken \/ StrongValence))
    /\ [][(WeirdNow /\ ~recovery'.betrayed
             /\ Abs(recovery'.agents["a"].emotion.valence) >= Dec(7, 10))
          => recovery'.agents["a"].emotion.weird_mode]_vars

\* after ten or more rounds of calm, strain has bled off below 0.3 and weird
\* mode is off with a moderate valence
C27_Witness ==
    /\ program = "recovery"
    /\ recovery.calm = MaxCalm
    /\ recovery.spikes > 0
    /\ recovery.agents["a"].emotion.strain < Dec(3, 10)
    /\ Abs(recovery.agents["a"].emotion.valence) < Dec(7, 10)
    /\ ~recovery.agents["a"].emotion.weird_mode


\* ------------------------------------------------------------------------
\* C29: betrayal against cooperation in update_trust_state
\* ------------------------------------------------------------------------

\* the default of update_trust_state's bounce argument
DefaultBounce == Dec(1, 10)

\* the change in affinity update_trust_state produces from the link as it
\* stands, with the default keyword arguments, after decay and clamping
AffinityChange(outcome) ==
    update_trust_state(demo.link, outcome, 0, 0, 0, DefaultBounce).state.affinity
       - demo.link.affinity

\* C29 as stated: from every TrustState the change in affinity produced for a
\* betrayal (CD) is larger in magnitude than the change produced for mutual
\* cooperation (CC) from the same state.
C29_BetrayalAlwaysLarger ==
    program = "fate_demo" => Abs(AffinityChange("CD")) > Abs(AffinityChange("CC"))

\* C29: from every TrustState whose affinity is at least -0.5 the change in
\* affinity produced for a betrayal (CD), after decay and clamping, is a drop
\* larger in magnitude than the change produced for mutual cooperation (CC);
\* at the floor -1 a betrayal changes nothing while cooperation still raises
\* affinity.
C29_BetrayalLarger ==
    program = "fate_demo" =>
       /\ demo.link.affinity >= -Dec(5, 10) =>
             /\ AffinityChange("CD") < 0
             /\ Abs(AffinityChange("CD")) > Abs(AffinityChange("CC"))
       /\ demo.link.affinity = -Scale =>
             /\ AffinityChange("CD") = 0
             /\ AffinityChange("CC") > 0

\* C29 witness: after a round of the loop the link stands at the floor, where
\* a betrayal changes nothing and cooperation raises affinity by 0.19
C29_Witness ==
    /\ program = "fate_demo"
    /\ demo.steps > 0
    /\ demo.link.affinity = -Scale
    /\ demo.link.boredom = 0
    /\ AffinityChange("CD") = 0
    /\ AffinityChange("CC") >= Dec(19, 100)


\* ------------------------------------------------------------------------
\* C30: what run_round leaves alone
\* ------------------------------------------------------------------------

\* the fields of an agent that run_round never assigns
Untouched(ag) ==
    [id |-> ag.id, tags |-> ag.tags, alignment |-> ag.alignment,
     trust_strategy |-> ag.trust_strategy, gossip_bias |-> ag.gossip_bias,
     relationships |-> ag.relationships, titanias_grace |-> ag.titanias_grace,
     inventory |-> ag.inventory]

\* trust_matrix after a round with other_id: every entry kept, entries toward
\* third agents unchanged, at most the entry for other_id added
TrustKept(before, after, other_id) ==
    /\ DOMAIN before.trust_matrix \subseteq DOMAIN after.trust_matrix
    /\ DOMAIN after.trust_matrix \subseteq DOMAIN before.trust_matrix \cup {other_id}
    /\ \A k \in DOMAIN before.trust_matrix \ {other_id} :
          after.trust_matrix[k] = before.trust_matrix[k]

\* C30: a call run_round(A, B) changes, in A, only the trust toward B,
\* emotion (valence, strain, weird_mode) and bounce_back (resentment,
\* cooldown), and symmetrically in B: trust toward third agents, gossip_bias,
\* relationships, alignment, trust_strategy, tags, titanias_grace and
\* inventory stay as they were, and no trust_matrix entry is removed.
C30_RoundFrame ==
    [][program = "sim" =>
          /\ Untouched(agent'["a"]) = Untouched(agent["a"])
          /\ Untouched(agent'["b"]) = Untouched(agent["b"])
          /\ TrustKept(agent["a"], agent'["a"], "b")
          /\ TrustKept(agent["b"], agent'["b"], "a")]_vars

\* C30 witness: a round has returned for the two allies; a's trust toward b
\* and a's valence have moved, a's trust toward the bystander is still 0.2
\* and the alliance is still recorded
C30_Witness ==
    /\ program = "sim"
    /\ rounds > 0
    /\ ~call.raised
    /\ Bystander \in DOMAIN agent["a"].trust_matrix
    /\ agent["a"].trust_matrix[Bystander] = Dec(2, 10)
    /\ agent["a"].trust_matrix["b"] # Dec(4, 10)
    /\ agent["a"].emotion.valence # Dec(8, 10)
    /\ "b" \in DOMAIN agent["a"].relationships
    /\ agent["a"].relationships["b"].tier = "ally"

====
